---- MODULE Spec2Model ----
(***************************************************************************)
(* Model of the AutoGLM task loop, AutoGLMAPIClient.executeTask, and of    *)
(* the dispatcher AutoGLMAPIClient.executeAction it drives                 *)
(* (src/src/services/autoglm-api-client.ts), together with the parts of    *)
(* ADBService it calls (src/src/services/adb-service.ts).                  *)
(* The tool that starts a run (src/src/tools/autoglm-tools.ts) and the     *)
(* HTTP and SSE servers that receive the requests (src/src/index.ts) are   *)
(* modelled in sections of their own.                                      *)
(*                                                                         *)
(* One run of executeTask is one behaviour.  Every await of the function   *)
(* is a position of pc; the model client, the device and the onStep        *)
(* observer are the environment and answer nondeterministically.           *)
(***************************************************************************)
EXTENDS Integers, Sequences, FiniteSets, TLC

\* Largest configured maxSteps explored.
MaxStepsBound == 2

\* JavaScript's undefined, for the string-valued fields that may be absent.
Undefined == "<undefined>"

\* A JavaScript value is truthy unless it is undefined or the empty string.
Truthy(v) == v # Undefined /\ v # ""

\* a || b on string-or-undefined values.
OrElse(a, b) == IF Truthy(a) THEN a ELSE b

----------------------------------------------------------------------------
(* Values of a decoded keyword argument: undefined, a string, a number, a  *)
(* list of numbers, or a list with items that are no numbers (kept as the  *)
(* texts of its items).                                                    *)
NoValue == [t |-> "undef", v |-> <<>>, s |-> <<>>]
List(numbers) == [t |-> "list", v |-> numbers, s |-> <<>>]
Num(n)  == [t |-> "num", v |-> <<n>>, s |-> <<>>]
String(x) == [t |-> "str", v |-> <<>>, s |-> <<x>>]
Mixed(items) == [t |-> "mixed", v |-> <<>>, s |-> items]

\* !element || !Array.isArray(element) || element.length < 2
LacksCoordinates(e) == e.t \notin {"list", "mixed"} \/ Len(e.v) + Len(e.s) < 2

----------------------------------------------------------------------------
(* Texts.  A text is a sequence of tokens; a token is a string that the    *)
(* source's string operations and regular expressions never look into: a   *)
(* single punctuation or white-space character, a tag, or a run of word    *)
(* characters.  A JavaScript string operation on a text is the same        *)
(* operation token by token.                                               *)

Spaces == {" ", "\n"}
Quotes == {"\"", "'"}
Tags == {"<think>", "</think>", "<answer>", "</answer>"}
Punctuation == {"(", ")", "=", "[", "]", ",", ".", "\\n"} \cup Quotes \cup Tags

\* The numerals of the texts explored, with the number each denotes.
NumberValue ==
    ("0" :> 0) @@ ("1" :> 1) @@ ("2" :> 2) @@ ("100" :> 100) @@ ("200" :> 200)
      @@ ("500" :> 500) @@ ("1000" :> 1000)

\* \d+(?:\.\d+)?
IsNumber(t) == t \in DOMAIN NumberValue

\* \w+
IsWord(t) == t \notin Spaces \cup Punctuation

parseFloat(t) == NumberValue[t]

\* The characters of a text, as one string.
RECURSIVE Str(_)
Str(text) == IF text = <<>> THEN "" ELSE Head(text) \o Str(Tail(text))

\* /i: the lower-case form of a token.
toLowerCase(t) ==
    CASE t = "Finish" -> "finish"
      [] t = "Message" -> "message"
      [] OTHER -> t

\* String.prototype.trim
RECURSIVE trimStart(_)
trimStart(text) ==
    IF text # <<>> /\ Head(text) \in Spaces THEN trimStart(Tail(text)) ELSE text

RECURSIVE trimEnd(_)
trimEnd(text) ==
    IF text # <<>> /\ text[Len(text)] \in Spaces
      THEN trimEnd(SubSeq(text, 1, Len(text) - 1))
      ELSE text

trim(text) == trimEnd(trimStart(text))

\* String.prototype.startsWith
startsWith(text, prefix) ==
    Len(text) >= Len(prefix) /\ SubSeq(text, 1, Len(prefix)) = prefix

\* Whether the pattern stands in the text at position i.
At(text, i, pattern) ==
    /\ i >= 1
    /\ i + Len(pattern) - 1 <= Len(text)
    /\ SubSeq(text, i, i + Len(pattern) - 1) = pattern

\* String.prototype.indexOf, counting positions from 1 (0: not found).
indexOf(text, pattern) ==
    IF \E i \in 1..Len(text) : At(text, i, pattern)
      THEN CHOOSE i \in 1..Len(text) :
             /\ At(text, i, pattern)
             /\ \A j \in 1..(i - 1) : ~At(text, j, pattern)
      ELSE 0

\* String.prototype.includes
includes(text, pattern) == indexOf(text, pattern) # 0

\* String.prototype.split with a non-empty separator and no limit: every
\* piece between two occurrences of the separator.
RECURSIVE split(_, _)
split(text, separator) ==
    LET i == indexOf(text, separator) IN
    IF i = 0 THEN << text >>
    ELSE << SubSeq(text, 1, i - 1) >>
           \o split(SubSeq(text, i + Len(separator), Len(text)), separator)

\* String.prototype.replace with a string pattern: the first occurrence only.
replace(text, pattern, by) ==
    LET i == indexOf(text, pattern) IN
    IF i = 0 THEN text
    ELSE SubSeq(text, 1, i - 1) \o by \o SubSeq(text, i + Len(pattern), Len(text))

\* replace(/\n/g, '\\n'): every line feed becomes a backslash and an n.
escapeNewlines(text) ==
    [i \in 1..Len(text) |-> IF text[i] = "\n" THEN "\\n" ELSE text[i]]

----------------------------------------------------------------------------
(* The regular expressions of parseAction, on texts.                       *)

\* \s*: the first position from i on that holds no white space.
RECURSIVE skipSpaces(_, _)
skipSpaces(text, i) ==
    IF i <= Len(text) /\ text[i] \in Spaces THEN skipSpaces(text, i + 1) ELSE i

\* The first position after k that holds the token (0: none).
firstAfter(text, k, token) ==
    IF \E m \in (k + 1)..Len(text) : text[m] = token
      THEN CHOOSE m \in (k + 1)..Len(text) :
             /\ text[m] = token
             /\ \A n \in (k + 1)..(m - 1) : text[n] # token
      ELSE 0

\* . matches every character but a line terminator.
OnOneLine(text, from, to) == \A n \in from..to : text[n] # "\n"

\* A bracketed list: JSON.parse of its items, or when that fails the items
\* split at the commas, each trimmed and read as a number if it starts with
\* one.  A list of numbers is kept as numbers, any other list as the texts
\* of its items.
IsJson(item) ==
    \/ Len(item) = 1 /\ IsNumber(item[1])
    \/ /\ Len(item) >= 2
       /\ item[1] = "\"" /\ item[Len(item)] = "\""
       /\ \A n \in 2..(Len(item) - 1) : item[n] # "\""

listValue(inside) ==
    LET pieces == split(inside, << "," >>)
        items  == [n \in 1..Len(pieces) |-> trim(pieces[n])]
        strict == \A n \in 1..Len(items) : IsJson(items[n])
        number(item) == item # <<>> /\ IsNumber(item[1])
                          /\ (strict => Len(item) = 1)
        shown(item) ==
            IF number(item) THEN item[1]
            ELSE IF strict THEN Str(SubSeq(item, 2, Len(item) - 1))
            ELSE Str(item)
    IN  IF trim(inside) = <<>> THEN List(<<>>)
        ELSE IF \A n \in 1..Len(items) : number(items[n])
          THEN List([n \in 1..Len(items) |-> parseFloat(items[n][1])])
        ELSE Mixed([n \in 1..Len(items) |-> shown(items[n])])

NoMatch == [found |-> FALSE, key |-> "", value |-> NoValue, next |-> 0]

\* keyValuePattern tried at position i:
\* (\w+)\s*=\s*(?:"([^"]*?)"|'([^']*?)'|\[([^\]]*)\]|(\d+(?:\.\d+)?))
keyValueAt(content, i) ==
    IF ~IsWord(content[i]) THEN NoMatch
    ELSE LET j == skipSpaces(content, i + 1) IN
    IF j > Len(content) \/ content[j] # "=" THEN NoMatch
    ELSE LET k == skipSpaces(content, j + 1) IN
    IF k > Len(content) THEN NoMatch
    ELSE IF content[k] \in Quotes
      THEN LET m == firstAfter(content, k, content[k]) IN
           IF m = 0 THEN NoMatch
           ELSE [found |-> TRUE, key |-> content[i],
                 value |-> String(Str(SubSeq(content, k + 1, m - 1))),
                 next |-> m + 1]
    ELSE IF content[k] = "["
      THEN LET m == firstAfter(content, k, "]") IN
           IF m = 0 THEN NoMatch
           ELSE [found |-> TRUE, key |-> content[i],
                 value |-> listValue(SubSeq(content, k + 1, m - 1)),
                 next |-> m + 1]
    ELSE IF IsNumber(content[k])
      THEN [found |-> TRUE, key |-> content[i],
            value |-> Num(parseFloat(content[k])), next |-> k + 1]
    ELSE NoMatch

\* while ((match = keyValuePattern.exec(content)) !== null) action[key] = value
RECURSIVE keyValues(_, _, _)
keyValues(content, i, found) ==
    IF i > Len(content) THEN found
    ELSE LET match == keyValueAt(content, i) IN
         IF match.found
           THEN keyValues(content, match.next, (match.key :> match.value) @@ found)
           ELSE keyValues(content, i + 1, found)

\* response.match(/text=["'](.*)["']\)$/): the positions where it matches.
textMatches(response) ==
    { i \in 1..(Len(response) - 4) :
        /\ response[i] = "text" /\ response[i + 1] = "="
        /\ response[i + 2] \in Quotes
        /\ response[Len(response) - 1] \in Quotes
        /\ response[Len(response)] = ")"
        /\ OnOneLine(response, i + 3, Len(response) - 2) }

Min(S) == CHOOSE n \in S : \A m \in S : n <= m
Max(S) == CHOOSE n \in S : \A m \in S : n >= m

\* response.match(/finish\(message\s*=\s*["'](.*)["']\)/i): the opening quote
\* of each position where it matches, and the closing quotes it can end at.
finishCloses(response, k) ==
    { m \in (k + 1)..(Len(response) - 1) :
        /\ response[m] \in Quotes /\ response[m + 1] = ")"
        /\ OnOneLine(response, k + 1, m - 1) }

finishOpens(response) ==
    { k \in 1..Len(response) :
        /\ response[k] \in Quotes
        /\ finishCloses(response, k) # {}
        /\ \E i \in 1..Len(response) :
             /\ i + 3 <= Len(response)
             /\ toLowerCase(response[i]) = "finish"
             /\ response[i + 1] = "("
             /\ toLowerCase(response[i + 2]) = "message"
             /\ LET j == skipSpaces(response, i + 3) IN
                  /\ j <= Len(response) /\ response[j] = "="
                  /\ skipSpaces(response, j + 1) = k }

\* The run of characters other than quotes and closing parentheses that
\* starts at position k: [^"')]+
restOfMessage(response, k) ==
    LET stops == { m \in k..Len(response) : response[m] \in Quotes \cup {")"} }
    IN  SubSeq(response, k, IF stops = {} THEN Len(response) ELSE Min(stops) - 1)

\* response.match(/message\s*=\s*["']?([^"')]+)/i) tried at position i: what
\* it captures (empty: no match here).  The optional quote is taken if text
\* follows it; failing that, the white space before it is given back and
\* captured.
fallbackAt(response, i) ==
    IF toLowerCase(response[i]) # "message" THEN <<>>
    ELSE LET j == skipSpaces(response, i + 1) IN
    IF j > Len(response) \/ response[j] # "=" THEN <<>>
    ELSE LET k == skipSpaces(response, j + 1) IN
    IF k <= Len(response) /\ response[k] \in Quotes
         /\ restOfMessage(response, k + 1) # <<>>
      THEN restOfMessage(response, k + 1)
    ELSE IF restOfMessage(response, k) # <<>>
      THEN restOfMessage(response, k)
    ELSE IF k > j + 1 THEN << response[k - 1] >>
    ELSE <<>>

fallbackMatches(response) ==
    { i \in 1..Len(response) : fallbackAt(response, i) # <<>> }

----------------------------------------------------------------------------
(* The action directives the model answers with in the runs explored, each *)
(* as the text the model writes.                                           *)

FinishDone ==
    << "finish", "(", "message", "=", "\"", "Task", " ", "completed", ".",
       "\"", ")" >>
DoTap ==
    << "do", "(", "action", "=", "\"", "Tap", "\"", ",", " ",
       "element", "=", "[", "500", ",", "1000", "]", ")" >>
DoTapNoElement ==
    << "do", "(", "action", "=", "\"", "Tap", "\"", ")" >>
DoDoubleTapShort ==
    << "do", "(", "action", "=", "\"", "Double", " ", "Tap", "\"", ",", " ",
       "element", "=", "[", "500", "]", ")" >>
DoLongPressNumber ==
    << "do", "(", "action", "=", "\"", "Long", " ", "Press", "\"", ",", " ",
       "element", "=", "500", ")" >>
DoSwipeNoEnd ==
    << "do", "(", "action", "=", "\"", "Swipe", "\"", ",", " ",
       "start", "=", "[", "100", ",", "200", "]", ")" >>
DoLaunch ==
    << "do", "(", "action", "=", "\"", "Launch", "\"", ",", " ",
       "app", "=", "\"", "Settings", "\"", ")" >>
DoLaunchNoApp ==
    << "do", "(", "action", "=", "\"", "Launch", "\"", ")" >>
DoLaunchUnknown ==
    << "do", "(", "action", "=", "\"", "Launch", "\"", ",", " ",
       "app", "=", "\"", "Nope", "\"", ")" >>
DoTakeOver ==
    << "do", "(", "action", "=", "\"", "Take_over", "\"", ",", " ",
       "message", "=", "\"", "login", "\"", ")" >>
DoUnknown ==
    << "do", "(", "action", "=", "\"", "Fly", "\"", ")" >>
DoRetagged ==
    << "do", "(", "action", "=", "\"", "Back", "\"", ",", " ",
       "_metadata", "=", "\"", "done", "\"", ")" >>
DoUnclosed ==
    << "do", "(", "action", "=", "\"", "Back", "\"" >>
Garbage ==
    << "tap", " ", "the", " ", "button" >>

Directives ==
    {FinishDone, DoTap, DoTapNoElement, DoDoubleTapShort, DoLongPressNumber,
     DoSwipeNoEnd, DoLaunch, DoLaunchNoApp, DoLaunchUnknown, DoTakeOver,
     DoUnknown, DoRetagged, DoUnclosed, Garbage}

\* The reasoning the model writes before its directive.
Thought == << "think", "\n" >>

\* The completions of the model: its reasoning, then a directive.
Completions == { Thought \o directive : directive \in Directives }

\* The content of a response that has none: content || ''.
NoCompletion == <<>>

----------------------------------------------------------------------------
(* Response Splitter and Action Decoder.                                   *)

FinishMarker == << "finish", "(", "message", "=" >>
DoMarker == << "do", "(", "action", "=" >>

\* Faulty variant: the do marker is looked for before the finish marker.
parseResponseDoFirst(content) ==
    IF includes(content, DoMarker)
      THEN LET parts == split(content, DoMarker) IN
           [thinking |-> trim(parts[1]), action |-> DoMarker \o parts[2]]
    ELSE IF includes(content, FinishMarker)
      THEN LET parts == split(content, FinishMarker) IN
           [thinking |-> trim(parts[1]), action |-> FinishMarker \o parts[2]]
    ELSE [thinking |-> <<>>, action |-> trim(content)]

\* parseResponse: the reasoning and the action directive of a completion.
parseResponse(content) ==
    IF includes(content, FinishMarker)
      THEN LET parts == split(content, FinishMarker) IN
           [thinking |-> trim(parts[1]), action |-> FinishMarker \o parts[2]]
    ELSE IF includes(content, DoMarker)
      THEN LET parts == split(content, DoMarker) IN
           [thinking |-> trim(parts[1]), action |-> DoMarker \o parts[2]]
    ELSE IF includes(content, << "<answer>" >>)
      THEN LET parts == split(content, << "<answer>" >>) IN
           [thinking |-> trim(replace(replace(parts[1], << "<think>" >>, <<>>),
                                      << "</think>" >>, <<>>)),
            action |-> trim(replace(parts[2], << "</answer>" >>, <<>>))]
    ELSE [thinking |-> <<>>, action |-> trim(content)]

\* The keyword argument of a decoded command (undefined if it has none), and
\* the same when the handlers read it as a string.
Field(args, key) == IF key \in DOMAIN args THEN args[key] ELSE NoValue

StringField(args, key) ==
    IF Field(args, key).t = "str" THEN Field(args, key).s[1] ELSE Undefined

\* A decoded command: the object parseAction builds, key by key, and the
\* fields of it that executeTask and the handlers read.
Command(args) ==
    [metadata |-> StringField(args, "_metadata"),
     action   |-> StringField(args, "action"),
     element  |-> Field(args, "element"),
     start    |-> Field(args, "start"),
     end      |-> Field(args, "end"),
     app      |-> StringField(args, "app"),
     message  |-> StringField(args, "message"),
     args     |-> args]

NoCommand == Command("_metadata" :> String("none"))

Decoded(args) == [ok |-> TRUE, action |-> Command(args), error |-> Undefined]

\* A throw inside parseAction: its catch wraps the message once more.
Failed(message) ==
    [ok |-> FALSE, action |-> NoCommand,
     error |-> "Failed to parse action: " \o message]

\* The Type and Type_Name directives whose text is taken directly.
matchType(response) ==
    /\ \/ startsWith(response, << "do", "(", "action", "=", "\"", "Type", "\"" >>)
       \/ startsWith(response, << "do", "(", "action", "=", "\"", "Type_Name", "\"" >>)
    /\ textMatches(response) # {}

decodeType(response) ==
    ("_metadata" :> String("do"))
      @@ ("action" :> String(IF includes(response, << "Type_Name" >>)
                               THEN "Type_Name" ELSE "Type"))
      @@ ("text" :> String(Str(SubSeq(response, Min(textMatches(response)) + 3,
                                      Len(response) - 2))))

\* The keyword arguments of the text between do( and the closing parenthesis.
decodeDo(content) == keyValues(content, 1, "_metadata" :> String("do"))

\* The message of a finish( directive: the quoted text, or failing that what
\* follows message=, or failing that the whole directive.
decodeFinish(response) ==
    LET opens == finishOpens(response)
        k == Min(opens)
        fallback == fallbackMatches(response)
    IN  ("_metadata" :> String("finish"))
          @@ ("message" :>
                String(IF opens # {}
                         THEN Str(SubSeq(response, k + 1,
                                         Max(finishCloses(response, k)) - 1))
                       ELSE IF fallback # {}
                         THEN Str(fallbackAt(response, Min(fallback)))
                       ELSE Str(response)))

matchFinish(response) ==
    \/ startsWith(response, << "finish", "(" >>)
    \/ startsWith(response, << "Finish", "(" >>)

\* Faulty variant: a do( directive is decoded whether or not it closes.
parseActionLenient(actionStr) ==
    LET response == trim(actionStr) IN
    IF matchType(response) THEN Decoded(decodeType(response))
    ELSE IF startsWith(response, << "do", "(" >>)
      THEN Decoded(decodeDo(SubSeq(escapeNewlines(response), 3, Len(response))))
    ELSE IF matchFinish(response) THEN Decoded(decodeFinish(response))
    ELSE Failed("Failed to parse action: " \o Str(response))

\* Faulty variant: a text that is no call at all is taken for the message of
\* a finish.
parseActionGuessesFinish(actionStr) ==
    LET response == trim(actionStr)
        escaped == escapeNewlines(response)
    IN
    IF matchType(response) THEN Decoded(decodeType(response))
    ELSE IF startsWith(response, << "do", "(" >>)
      THEN IF Len(escaped) >= 3 /\ escaped[Len(escaped)] = ")"
             THEN Decoded(decodeDo(SubSeq(escaped, 3, Len(escaped) - 1)))
             ELSE Failed("Invalid do() format")
    ELSE Decoded(decodeFinish(response))

\* parseAction: a do( directive that closes decodes to a "do" command with
\* its keyword arguments, a finish( directive to a "finish" command; a do(
\* that does not close and any other text throw, and the outer catch wraps
\* the message once more.
parseAction(actionStr) ==
    LET response == trim(actionStr)
        escaped == escapeNewlines(response)
    IN
    IF matchType(response) THEN Decoded(decodeType(response))
    ELSE IF startsWith(response, << "do", "(" >>)
      THEN IF Len(escaped) >= 3 /\ escaped[Len(escaped)] = ")"
             THEN Decoded(decodeDo(SubSeq(escaped, 3, Len(escaped) - 1)))
             ELSE Failed("Invalid do() format")
    ELSE IF matchFinish(response) THEN Decoded(decodeFinish(response))
    ELSE Failed("Failed to parse action: " \o Str(response))

----------------------------------------------------------------------------
(* Coordinate normalisation and dispatch.                                  *)

\* Math.round of the rational n / d, d > 0: the nearest integer, a half
\* going up (in exact arithmetic).
Round(n, d) == (2 * n + d) \div (2 * d)

\* Math.floor of the rational n / d, d > 0.
Floor(n, d) == n \div d

\* convertRelativeToAbsolute: [round(x / 1000 * width), round(y / 1000 * height)]
convertRelativeToAbsolute(element, screen_width, screen_height) ==
    << Round(element[1] * screen_width, 1000),
       Round(element[2] * screen_height, 1000) >>

\* ADBService.relativeToAbsolute:
\* { x: floor(relativeX / 1000 * screenWidth), y: floor(relativeY / 1000 * screenHeight) }
relativeToAbsolute(relativeX, relativeY, screenWidth, screenHeight) ==
    [x |-> Floor(relativeX * screenWidth, 1000),
     y |-> Floor(relativeY * screenHeight, 1000)]

\* The application table of config/apps.js: display name to package.
APP_PACKAGES == [Settings |-> "com.android.settings", Chrome |-> "com.android.chrome"]

ActionResult(success, shouldFinish, message) ==
    [success |-> success, shouldFinish |-> shouldFinish, message |-> message]

NoResult == ActionResult(FALSE, FALSE, Undefined)

\* A string-or-undefined value inside a template literal.
Template(v) == IF v = Undefined THEN "undefined" ELSE v

\* Faulty variant: the result made of a failed adb command asks to finish.
AfterDeviceEndsTask(dev, result) ==
    IF dev = "ok" THEN result
    ELSE ActionResult(FALSE, TRUE, "Command failed: adb")

\* What an handler answers once it has reached its adb command: the command's
\* normal result, or the failure that executeAction's catch turns into a
\* result (whose shouldFinish is absent, hence falsy).
AfterDevice(dev, result) ==
    IF dev = "ok" THEN result
    ELSE ActionResult(FALSE, FALSE, "Command failed: adb")

_handleLaunch(action, dev) ==
    IF ~Truthy(action.app)
      THEN ActionResult(FALSE, FALSE, "No app name specified")
    ELSE IF action.app \notin DOMAIN APP_PACKAGES
      THEN ActionResult(FALSE, FALSE, "App not found: " \o action.app)
    ELSE AfterDevice(dev, ActionResult(TRUE, FALSE, Undefined))

\* _handleTap, _handleDoubleTap and _handleLongPress share this shape.
_handleTap(action, dev) ==
    IF LacksCoordinates(action.element)
      THEN ActionResult(FALSE, FALSE, "No element coordinates")
    ELSE AfterDevice(dev, ActionResult(TRUE, FALSE, Undefined))

_handleSwipe(action, dev) ==
    IF LacksCoordinates(action.start) \/ LacksCoordinates(action.end)
      THEN ActionResult(FALSE, FALSE, "Missing swipe coordinates")
    ELSE AfterDevice(dev, ActionResult(TRUE, FALSE, Undefined))

_handleTakeover(action) ==
    ActionResult(TRUE, FALSE, OrElse(action.message, "User intervention required"))

_handleInteract(action) ==
    ActionResult(TRUE, FALSE, "User interaction required")

\* The commands whose handler does nothing but run adb (or sleep).
DeviceOnly == {"Type", "Type_Name", "Back", "Home", "Wait"}

\* Faulty variant: an unknown command name is taken for a plain success.
executeActionIgnoresUnknown(action, dev) ==
    IF action.metadata = "finish"
      THEN ActionResult(TRUE, TRUE, action.message)
    ELSE IF action.metadata # "do"
      THEN ActionResult(FALSE, TRUE,
                        "Unknown action type: " \o Template(action.metadata))
    ELSE CASE action.action = "Launch" -> _handleLaunch(action, dev)
           [] action.action \in {"Tap", "Double Tap", "Long Press"} ->
                _handleTap(action, dev)
           [] action.action = "Swipe" -> _handleSwipe(action, dev)
           [] OTHER -> AfterDevice(dev, ActionResult(TRUE, FALSE, Undefined))

\* executeAction: the dispatch outcome of a decoded command; dev is what the
\* device answers if the handler reaches it.
executeAction(action, dev) ==
    IF action.metadata = "finish"
      THEN ActionResult(TRUE, TRUE, action.message)
    ELSE IF action.metadata # "do"
      THEN ActionResult(FALSE, TRUE,
                        "Unknown action type: " \o Template(action.metadata))
    ELSE CASE action.action = "Launch" -> _handleLaunch(action, dev)
           [] action.action \in {"Tap", "Double Tap", "Long Press"} ->
                _handleTap(action, dev)
           [] action.action = "Swipe" -> _handleSwipe(action, dev)
           [] action.action \in DeviceOnly ->
                AfterDevice(dev, ActionResult(TRUE, FALSE, Undefined))
           [] action.action = "Take_over" -> _handleTakeover(action)
           [] action.action = "Note" -> ActionResult(TRUE, FALSE, action.message)
           [] action.action = "Call_API" -> ActionResult(TRUE, FALSE, Undefined)
           [] action.action = "Interact" -> _handleInteract(action)
           [] OTHER -> ActionResult(FALSE, FALSE,
                                    "Unknown action: " \o Template(action.action))

\* Whether the handler of the command reaches the device at all.
ReachesDevice(action) ==
    /\ action.metadata = "do"
    /\ \/ action.action \in DeviceOnly
       \/ action.action = "Launch" /\ Truthy(action.app)
                                   /\ action.app \in DOMAIN APP_PACKAGES
       \/ action.action \in {"Tap", "Double Tap", "Long Press"}
            /\ ~LacksCoordinates(action.element)
       \/ action.action = "Swipe" /\ ~LacksCoordinates(action.start)
                                  /\ ~LacksCoordinates(action.end)

\* The pixel coordinates the handler hands to adb input (empty if none).
PixelsSent(action, width, height) ==
    IF ~ReachesDevice(action) THEN <<>>
    ELSE IF action.action \in {"Tap", "Double Tap", "Long Press"}
              /\ action.element.t = "list"
      THEN convertRelativeToAbsolute(action.element.v, width, height)
    ELSE IF action.action = "Swipe" /\ action.start.t = "list"
                                    /\ action.end.t = "list"
      THEN convertRelativeToAbsolute(action.start.v, width, height)
             \o convertRelativeToAbsolute(action.end.v, width, height)
    ELSE <<>>

----------------------------------------------------------------------------
(* The collaborators' answers.                                             *)

\* adb screencap and pull: a failure, or a PNG whose header gives the size
\* (a file shorter than 24 bytes keeps the defaults).
ScreenshotOutcomes ==
    { [ok |-> FALSE, length |-> 0,  width |-> 0,   height |-> 0],
      [ok |-> TRUE,  length |-> 8,  width |-> 0,   height |-> 0],
      [ok |-> TRUE,  length |-> 64, width |-> 720, height |-> 1280] }

defaultWidth == 1080
defaultHeight == 2400

\* captureScreenshot: the image and its size, or on any failure the black
\* placeholder of the default size.
captureScreenshot(o) ==
    IF o.ok
      THEN [base64_data |-> "png",
            width  |-> IF o.length >= 24 THEN o.width ELSE defaultWidth,
            height |-> IF o.length >= 24 THEN o.height ELSE defaultHeight]
      ELSE [base64_data |-> "black", width |-> defaultWidth, height |-> defaultHeight]

NoScreenshot == [base64_data |-> "", width |-> 0, height |-> 0]

\* adb shell dumpsys window: a failure of the command, or the package in focus.
DumpsysOutcomes ==
    { [ok |-> FALSE, focus |-> ""],
      [ok |-> TRUE,  focus |-> "com.android.settings"],
      [ok |-> TRUE,  focus |-> "com.example.game"] }

\* execCommand: the output, or the failure rethrown with its prefix.
execCommand(o) ==
    IF o.ok THEN [threw |-> FALSE, value |-> o.focus]
    ELSE [threw |-> TRUE, value |-> "ADB command failed: " \o "adb: no devices"]

\* getCurrentApp: execCommand's failure is not caught here; otherwise the
\* name of the application whose package the focus line holds, else "unknown".
getCurrentApp(o) ==
    LET output == execCommand(o) IN
    IF output.threw THEN output
    ELSE IF \E appName \in DOMAIN APP_PACKAGES : APP_PACKAGES[appName] = output.value
      THEN [threw |-> FALSE,
            value |-> CHOOSE appName \in DOMAIN APP_PACKAGES :
                        APP_PACKAGES[appName] = output.value]
    ELSE [threw |-> FALSE, value |-> "unknown"]

\* buildScreenInfo, lang = 'en'.
buildScreenInfo(currentApp) == "Current App: " \o currentApp

\* fetch and the response handling of callAPI: a transport failure, a status
\* that is not ok, or a body whose content (or '' when absent) is returned.
ApiOutcomes ==
    { [kind |-> "network", content |-> NoCompletion],
      [kind |-> "status",  content |-> NoCompletion],
      [kind |-> "empty",   content |-> NoCompletion] }
    \cup [kind : {"ok"}, content : Completions]

callAPI(o) ==
    CASE o.kind = "network" -> [threw |-> TRUE, value |-> NoCompletion,
                                message |-> "fetch failed"]
      [] o.kind = "status"  -> [threw |-> TRUE, value |-> NoCompletion,
                                message |-> "AutoGLM API error: " \o "401 - denied"]
      [] OTHER -> [threw |-> FALSE, value |-> o.content, message |-> Undefined]

\* What the onStep observer does when called: it returns, or throws an Error
\* with a message (possibly empty), or throws a string.
ObserverOutcomes ==
    { [threw |-> FALSE, isError |-> FALSE, message |-> Undefined, string |-> Undefined],
      [threw |-> TRUE,  isError |-> TRUE,  message |-> "observer failed", string |-> "Error: observer failed"],
      [threw |-> TRUE,  isError |-> TRUE,  message |-> "", string |-> "Error"],
      [threw |-> TRUE,  isError |-> FALSE, message |-> Undefined, string |-> "stop"] }

\* error instanceof Error ? error.message : String(error)
ErrorText(error) == IF error.isError THEN error.message ELSE error.string

\* An Error thrown with the given message.
Error(message) == [threw |-> TRUE, isError |-> TRUE, message |-> message, string |-> "Error: " \o message]

----------------------------------------------------------------------------
(* The state of one run of executeTask.                                    *)

VARIABLES
    maxSteps,      \* this.config.maxSteps
    hasOnStep,     \* whether the caller passed an onStep observer
    pc,            \* the position of the run ("raised": an exception left it)
    stepCount,     \* let stepCount
    finished,      \* let finished
    result,        \* const result: AutoGLMTaskResult
    context,       \* const context: AutoGLMMessage[]
    screenshot,    \* const screenshot, of the current iteration
    currentApp,    \* const currentApp
    response,      \* const response
    parsed,        \* const parsed
    action,        \* const action
    actionResult,  \* const actionResult
    calls,         \* how often each collaborator was called in this run
    thrown,        \* the exception the catch handled: its stage, step and text
    seen,          \* the step of the first finish directive and of the first
                   \* shouldFinish signal (0: none yet)
    failures,      \* the stages at which something failed in this run
    stepLog        \* what happened in the current iteration

\* The state of the server process that the runs of executeTask share.
VARIABLES
    mode,          \* args.transport: "stdio", "http" or "sse"
    env,           \* process.env.AUTOGLM_API_KEY
    transports,    \* the session ids under which a transport is stored
    generated,     \* how many session ids randomUUID has given out
    inflight,      \* the tool calls handed to a transport, not yet started
    started,       \* the task started last: who asked, with which key
    answer         \* what the request handled last was answered with

serverVars == << mode, env, transports, generated, inflight, started, answer >>

taskVars == << maxSteps, hasOnStep, pc, stepCount, finished, result, context,
               screenshot, currentApp, response, parsed, action, actionResult,
               calls, thrown, seen, failures, stepLog >>

vars == << taskVars, serverVars >>

\* The key the server process was started with.
ConfiguredKey == "key of the server"

NoTask == [client |-> "none", supplied |-> Undefined, apiKey |-> Undefined]

NoAnswer ==
    [method |-> "none", session |-> Undefined, initialize |-> FALSE,
     known |-> FALSE, status |-> "none", handled |-> "none", created |-> FALSE]

\* The server in stdio mode: no session, no request, the key of the
\* environment.
NoServer ==
    /\ mode = "stdio"
    /\ env = ConfiguredKey
    /\ transports = {}
    /\ generated = 0
    /\ inflight = {}
    /\ started = NoTask
    /\ answer = NoAnswer

task == "open settings"

SystemTurn == [role |-> "system", text |-> "system prompt", image |-> FALSE]

NothingThrown == [stage |-> "none", step |-> 0, text |-> Undefined]

NoStepLog ==
    [shotFailed |-> FALSE, modelCalled |-> FALSE, dispatched |-> FALSE,
     pixels |-> <<>>, order |-> <<>>]

Init ==
    /\ maxSteps \in 1..MaxStepsBound
    /\ hasOnStep \in BOOLEAN
    /\ pc = "loop"
    /\ stepCount = 0
    /\ finished = FALSE
    /\ result = [success |-> FALSE, finished |-> FALSE, completed |-> FALSE,
                 steps |-> 0, totalSteps |-> 0, actions |-> <<>>,
                 message |-> Undefined, finalState |-> Undefined,
                 error |-> Undefined]
    /\ context = << SystemTurn >>
    /\ screenshot = NoScreenshot
    /\ currentApp = Undefined
    /\ response = NoCompletion
    /\ parsed = parseResponse(NoCompletion)
    /\ action = NoCommand
    /\ actionResult = NoResult
    /\ calls = [capture |-> 0, app |-> 0, model |-> 0, dispatch |-> 0, observer |-> 0]
    /\ thrown = NothingThrown
    /\ seen = [finishStep |-> 0, finishMessage |-> Undefined, signalStep |-> 0]
    /\ failures = {}
    /\ stepLog = NoStepLog
    /\ NoServer

----------------------------------------------------------------------------
(* The loop.                                                               *)

\* Faulty variant: the loop test admits one iteration too many.
LoopConditionInclusive == stepCount <= maxSteps /\ ~finished

\* Faulty variant: the loop test forgets the finished flag.
LoopConditionIgnoresFinished == stepCount < maxSteps

\* while (stepCount < this.config.maxSteps && !finished)
LoopCondition == stepCount < maxSteps /\ ~finished

\* Faulty variant: the catch stops the loop but does not keep the error text.
CatchDropsError(error, stage) ==
    /\ result' = [result EXCEPT !.success = FALSE]
    /\ finished' = TRUE
    /\ thrown' = [stage |-> stage, step |-> stepCount, text |-> ErrorText(error)]
    /\ pc' = "loop"

\* Faulty variant: the catch keeps the error text but lets the loop go on.
CatchKeepsLooping(error, stage) ==
    /\ result' = [result EXCEPT !.error = ErrorText(error), !.success = FALSE]
    /\ finished' = finished
    /\ thrown' = [stage |-> stage, step |-> stepCount, text |-> ErrorText(error)]
    /\ pc' = "loop"

\* Faulty variant: no catch, the exception leaves executeTask.
CatchRethrows(error, stage) ==
    /\ result' = result
    /\ finished' = finished
    /\ thrown' = [stage |-> stage, step |-> stepCount, text |-> ErrorText(error)]
    /\ pc' = "raised"

\* Faulty variant: the catch marks the result finished, as it does the loop.
CatchMarksResultFinished(error, stage) ==
    /\ result' = [result EXCEPT !.error = ErrorText(error), !.success = FALSE,
                                !.finished = TRUE]
    /\ finished' = TRUE
    /\ thrown' = [stage |-> stage, step |-> stepCount, text |-> ErrorText(error)]
    /\ pc' = "loop"

\* The catch of the iteration: the error text is kept, success is cleared
\* and the loop is told to stop.
Catch(error, stage) ==
    /\ result' = [result EXCEPT !.error = ErrorText(error), !.success = FALSE]
    /\ finished' = TRUE
    /\ thrown' = [stage |-> stage, step |-> stepCount, text |-> ErrorText(error)]
    /\ pc' = "loop"

Logged(stage) == [stepLog EXCEPT !.order = Append(@, stage)]

\* The loop test succeeds: the step is counted before anything is tried.
LoopHead ==
    /\ pc = "loop"
    /\ LoopCondition
    /\ stepCount' = stepCount + 1
    /\ result' = [result EXCEPT !.steps = stepCount + 1, !.totalSteps = stepCount + 1]
    /\ pc' = "capture"
    /\ screenshot' = NoScreenshot
    /\ currentApp' = Undefined
    /\ response' = NoCompletion
    /\ parsed' = parseResponse(NoCompletion)
    /\ action' = NoCommand
    /\ actionResult' = NoResult
    /\ stepLog' = NoStepLog
    /\ UNCHANGED << serverVars, maxSteps, hasOnStep, finished, context, calls, thrown, seen,
                    failures >>

\* The loop test fails: return result.
Return ==
    /\ pc = "loop"
    /\ ~LoopCondition
    /\ pc' = "returned"
    /\ UNCHANGED << serverVars, maxSteps, hasOnStep, stepCount, finished, result, context,
                    screenshot, currentApp, parsed, response, action, actionResult, calls,
                    thrown, seen, failures, stepLog >>

\* await this.captureScreenshot(deviceId)
CaptureScreenshot ==
    /\ pc = "capture"
    /\ \E o \in ScreenshotOutcomes :
         /\ screenshot' = captureScreenshot(o)
         /\ failures' = IF o.ok THEN failures ELSE failures \cup {"screenshot"}
         /\ stepLog' = [Logged("capture") EXCEPT !.shotFailed = ~o.ok]
    /\ calls' = [calls EXCEPT !.capture = @ + 1]
    /\ pc' = "app"
    /\ UNCHANGED << serverVars, maxSteps, hasOnStep, stepCount, finished, result, context,
                    currentApp, parsed, response, action, actionResult, thrown, seen >>

\* The text of the user turn: the task on the first step only.
userContent(app) ==
    IF stepCount = 1 THEN task \o "\n\n" \o buildScreenInfo(app)
    ELSE "** Screen Info **\n\n" \o buildScreenInfo(app)

\* await adbService.getCurrentApp(deviceId), then the user turn with its image
\* is pushed.
GetCurrentApp ==
    /\ pc = "app"
    /\ calls' = [calls EXCEPT !.app = @ + 1]
    /\ stepLog' = Logged("app")
    /\ \E o \in DumpsysOutcomes :
         LET r == getCurrentApp(o) IN
         IF r.threw
           THEN /\ Catch(Error(r.value), "app")
                /\ failures' = failures \cup {"app"}
                /\ UNCHANGED << currentApp, context >>
           ELSE /\ currentApp' = r.value
                /\ context' = Append(context, [role |-> "user",
                                               text |-> userContent(r.value),
                                               image |-> TRUE])
                /\ pc' = "call"
                /\ UNCHANGED << result, finished, thrown, failures >>
    /\ UNCHANGED << serverVars, maxSteps, hasOnStep, stepCount, screenshot, parsed, response, action,
                    actionResult, seen >>

\* await this.callAPI(context), then parseResponse.
CallAPI ==
    /\ pc = "call"
    /\ calls' = [calls EXCEPT !.model = @ + 1]
    /\ stepLog' = [Logged("model") EXCEPT !.modelCalled = TRUE]
    /\ \E o \in ApiOutcomes :
         LET r == callAPI(o) IN
         IF r.threw
           THEN /\ Catch(Error(r.message), "model")
                /\ failures' = failures \cup {"model"}
                /\ UNCHANGED << parsed, response >>
           ELSE /\ response' = r.value
                /\ parsed' = parseResponse(r.value)
                /\ pc' = "decode"
                /\ UNCHANGED << result, finished, thrown, failures >>
    /\ UNCHANGED << serverVars, maxSteps, hasOnStep, stepCount, context, screenshot,
                    currentApp, action, actionResult, seen >>

\* A variant that leaves the newest turn as it was pushed, image included.
TextAndImage(turns) == turns

\* The newest turn with its content collapsed to its text.
TextOnly(turns) == [turns EXCEPT ![Len(turns)].image = FALSE]

\* Faulty variant: a directive that cannot be decoded is noted as a failure
\* and the step goes on to dispatch with the command it has.
DecodeDispatchesAnyway ==
    /\ pc = "decode"
    /\ stepLog' = Logged("decode")
    /\ LET r == parseAction(parsed.action) IN
         /\ failures' = IF r.ok THEN failures ELSE failures \cup {"decode"}
         /\ action' = IF r.ok THEN r.action ELSE action
         /\ context' = TextOnly(context)
         /\ seen' = IF r.ok /\ r.action.metadata = "finish" /\ seen.finishStep = 0
                      THEN [seen EXCEPT !.finishStep = stepCount,
                                        !.finishMessage = r.action.message]
                      ELSE seen
         /\ pc' = "dispatch"
         /\ UNCHANGED << result, finished, thrown >>
    /\ UNCHANGED << serverVars, maxSteps, hasOnStep, stepCount, screenshot, currentApp,
                    parsed, response, actionResult, calls >>

\* this.parseAction(parsed.action), then the image of the newest user turn is
\* dropped.
Decode ==
    /\ pc = "decode"
    /\ stepLog' = Logged("decode")
    /\ LET r == parseAction(parsed.action) IN
         IF ~r.ok
           THEN /\ Catch(Error(r.error), "decode")
                /\ failures' = failures \cup {"decode"}
                /\ UNCHANGED << action, context, seen >>
           ELSE /\ action' = r.action
                /\ context' = TextOnly(context)
                /\ seen' = IF r.action.metadata = "finish" /\ seen.finishStep = 0
                             THEN [seen EXCEPT !.finishStep = stepCount,
                                               !.finishMessage = r.action.message]
                             ELSE seen
                /\ pc' = "dispatch"
                /\ UNCHANGED << result, finished, thrown, failures >>
    /\ UNCHANGED << serverVars, maxSteps, hasOnStep, stepCount, screenshot, currentApp,
                    parsed, response, actionResult, calls >>

\* What the device may answer to the command: nothing is asked of it unless
\* the handler reaches it.
DeviceOutcomes(a) == IF ReachesDevice(a) THEN {"ok", "fail"} ELSE {"ok"}

\* await this.executeAction(action, deviceId, width, height)
ExecuteAction ==
    /\ pc = "dispatch"
    /\ calls' = [calls EXCEPT !.dispatch = @ + 1]
    /\ \E dev \in DeviceOutcomes(action) :
         /\ actionResult' = executeAction(action, dev)
         /\ failures' = IF executeAction(action, dev).success THEN failures
                        ELSE failures \cup {"dispatch"}
         /\ seen' = IF executeAction(action, dev).shouldFinish /\ seen.signalStep = 0
                      THEN [seen EXCEPT !.signalStep = stepCount]
                      ELSE seen
    /\ stepLog' = [Logged("dispatch") EXCEPT
                     !.dispatched = TRUE,
                     !.pixels = PixelsSent(action, screenshot.width, screenshot.height)]
    /\ pc' = "settle"
    /\ UNCHANGED << serverVars, maxSteps, hasOnStep, stepCount, finished, result, context,
                    screenshot, currentApp, parsed, response, action, thrown >>

\* Faulty variant: the record is numbered by the records before it, from 0.
stepRecordCountsFromZero ==
    [step |-> Len(result.actions), thinking |-> parsed.thinking, action |-> action,
     success |-> actionResult.success, result |-> actionResult.message,
     error |-> IF actionResult.success THEN Undefined ELSE actionResult.message]

\* The record of the step just dispatched.
stepRecord ==
    [step |-> stepCount, thinking |-> parsed.thinking, action |-> action,
     success |-> actionResult.success, result |-> actionResult.message,
     error |-> IF actionResult.success THEN Undefined ELSE actionResult.message]

\* Faulty variant: the settle delay elapses but no record is appended.
SettleWithoutRecord ==
    /\ pc = "settle"
    /\ result' = result
    /\ stepLog' = Logged("settle")
    /\ pc' = "observer"
    /\ UNCHANGED << serverVars, maxSteps, hasOnStep, stepCount, finished, context, screenshot,
                    currentApp, parsed, response, action, actionResult, calls, thrown, seen,
                    failures >>

\* The settle delay elapses and the step is recorded.
Settle ==
    /\ pc = "settle"
    /\ result' = [result EXCEPT !.actions = Append(@, stepRecord)]
    /\ stepLog' = Logged("settle")
    /\ pc' = "observer"
    /\ UNCHANGED << serverVars, maxSteps, hasOnStep, stepCount, finished, context, screenshot,
                    currentApp, parsed, response, action, actionResult, calls, thrown, seen,
                    failures >>

\* Faulty variant: the finish test reads the success flag of the dispatch
\* outcome instead of its shouldFinish flag.
StepFinishesOnSuccess == action.metadata = "finish" \/ actionResult.success

\* if (action._metadata === 'finish' || actionResult.shouldFinish)
StepFinishes == action.metadata = "finish" \/ actionResult.shouldFinish

\* Faulty variant: the iteration ends without pushing the assistant turn.
StepTailWithoutAssistantTurn ==
    /\ context' = context
    /\ IF action.metadata = "finish" \/ actionResult.shouldFinish
         THEN /\ finished' = TRUE
              /\ result' = [result EXCEPT
                   !.finished = TRUE,
                   !.completed = TRUE,
                   !.success = actionResult.success,
                   !.message = OrElse(actionResult.message, action.message),
                   !.finalState = OrElse(actionResult.message, action.message)]
         ELSE UNCHANGED << finished, result >>
    /\ pc' = "loop"
    /\ UNCHANGED thrown

\* The assistant turn is pushed and the finish test is made.
StepTail ==
    /\ context' = Append(context,
                         [role |-> "assistant",
                          text |-> "<answer>" \o Str(parsed.thinking) \o "\n\n"
                                     \o Str(parsed.action) \o "</answer>",
                          image |-> FALSE])
    /\ IF StepFinishes
         THEN /\ finished' = TRUE
              /\ result' = [result EXCEPT
                   !.finished = TRUE,
                   !.completed = TRUE,
                   !.success = actionResult.success,
                   !.message = OrElse(actionResult.message, action.message),
                   !.finalState = OrElse(actionResult.message, action.message)]
         ELSE UNCHANGED << finished, result >>
    /\ pc' = "loop"
    /\ UNCHANGED thrown

\* onStep, if given, is called; unless it throws, the iteration ends with the
\* assistant turn and the finish test.
OnStep ==
    /\ pc = "observer"
    /\ stepLog' = Logged("observer")
    /\ \/ /\ ~hasOnStep
          /\ StepTail
          /\ UNCHANGED << calls, failures >>
       \/ /\ hasOnStep
          /\ calls' = [calls EXCEPT !.observer = @ + 1]
          /\ \E o \in ObserverOutcomes :
               IF o.threw
                 THEN /\ Catch(o, "observer")
                      /\ failures' = failures \cup {"observer"}
                      /\ UNCHANGED context
                 ELSE StepTail /\ UNCHANGED failures
    /\ UNCHANGED << serverVars, maxSteps, hasOnStep, stepCount, screenshot, currentApp,
                    parsed, response, action, actionResult, seen >>

Next ==
    \/ LoopHead
    \/ Return
    \/ CaptureScreenshot
    \/ GetCurrentApp
    \/ CallAPI
    \/ Decode
    \/ ExecuteAction
    \/ Settle
    \/ OnStep

Spec == Init /\ [][Next]_vars

\* The steps that end with the loop test or with an awaited call (screenshot,
\* foreground-app query, model call, dispatch, timer, observer).
Awaited ==
    \/ LoopHead
    \/ Return
    \/ CaptureScreenshot
    \/ GetCurrentApp
    \/ CallAPI
    \/ ExecuteAction
    \/ Settle
    \/ OnStep

\* parseAction(parsed.action) returns or throws: the run leaves the decoding.
DecodeReturns == pc = "decode" /\ pc' \in {"dispatch", "loop"}

\* The same run when every awaited call returns or throws in the end and the
\* synchronous decoding ends: a step that can be taken is taken.
LiveSpec == Init /\ [][Next]_vars /\ WF_vars(Awaited) /\ WF_pc(DecodeReturns)

----------------------------------------------------------------------------
(* The autoglm_task tool: it runs executeTask with the prompt and the      *)
(* device id of the request (none here: the first connected device) and    *)
(* answers with the formatted result.                                      *)

\* formatTaskResultAsMarkdown, line by line (the status icons are left out).
\* data.steps is the step count, a number, so no step is listed.
formatTaskResultAsMarkdown(data) ==
    << "# AutoGLM Task Execution Result", "",
       "**Status:** " \o (IF data.success THEN "Success" ELSE "Failed"),
       "**Completed:** " \o (IF data.completed THEN "Yes" ELSE "No"),
       "**Total Steps:** " \o ToString(data.total_steps),
       "**Device ID:** " \o OrElse(data.device_id, "default"),
       "" >>
      \o (IF Truthy(data.final_state)
            THEN << "**Final State:** " \o data.final_state, "" >> ELSE <<>>)
      \o (IF Truthy(data.error)
            THEN << "**Error:** " \o data.error, "" >> ELSE <<>>)

\* What the handler of autoglm_task answers once executeTask is over: the
\* formatted result, or "Error: ..." if executeTask threw.
autoglm_task ==
    IF pc = "raised"
      THEN [isError |-> TRUE, text |-> << "Error: " \o thrown.text >>]
      ELSE [isError |-> FALSE,
            text |-> formatTaskResultAsMarkdown(
                       [success |-> result.success,
                        completed |-> result.completed,
                        total_steps |-> result.totalSteps,
                        steps |-> result.steps,
                        final_state |-> result.finalState,
                        device_id |-> Undefined,
                        error |-> result.error])]

----------------------------------------------------------------------------
(* What a model may write.  A do call is written from its keyword          *)
(* arguments, each a key and a literal of one of the four shapes.          *)

Arg(key, kind, value) == [key |-> key, kind |-> kind, value |-> value]

RECURSIVE Commas(_)
Commas(items) ==
    IF Len(items) <= 1 THEN items
    ELSE << Head(items), "," >> \o Commas(Tail(items))

Literal(arg) ==
    CASE arg.kind = "double" -> << "\"" >> \o arg.value \o << "\"" >>
      [] arg.kind = "single" -> << "'" >> \o arg.value \o << "'" >>
      [] arg.kind = "list"   -> << "[" >> \o Commas(arg.value) \o << "]" >>
      [] arg.kind = "number" -> arg.value

RECURSIVE Arguments(_)
Arguments(args) ==
    IF args = <<>> THEN <<>>
    ELSE << Head(args).key, "=" >> \o Literal(Head(args))
           \o (IF Len(args) > 1 THEN << ",", " " >> ELSE <<>>)
           \o Arguments(Tail(args))

\* do(key=literal, key=literal, ...)
DoCall(args) == << "do", "(" >> \o Arguments(args) \o << ")" >>

\* finish(message=...), the message between the given quotes (or none).
FinishCall(open, message, close) ==
    FinishMarker \o open \o message \o close \o << ")" >>

\* <think>T</think><answer>D</answer>, laid out as the system prompt shows it.
AnswerTagForm(thinking, directive) ==
    << "<think>" >> \o thinking \o << "</think>", "\n", "<answer>" >>
      \o directive \o << "</answer>" >>

\* Well-formed do calls: an action keyword and keyword arguments that are
\* double-quoted strings, single-quoted strings, lists or bare numbers.
WellFormedCommands ==
    { << Arg("action", "double", << "Tap" >>),
         Arg("element", "list", << "500", "1000" >>) >>,
      << Arg("action", "double", << "Tap" >>),
         Arg("element", "list", << "500", "1000" >>),
         Arg("message", "double", << "confirm", ",", " ", "pay" >>) >>,
      << Arg("action", "double", << "Double", " ", "Tap" >>),
         Arg("element", "list", << "0", "0" >>) >>,
      << Arg("action", "double", << "Launch" >>),
         Arg("app", "double", << "Settings" >>) >>,
      << Arg("action", "single", << "Launch" >>),
         Arg("app", "single", << "Settings" >>) >>,
      << Arg("action", "double", << "Swipe" >>),
         Arg("start", "list", << "100", "200" >>),
         Arg("end", "list", << "500", "1000" >>) >>,
      << Arg("action", "double", << "Wait" >>),
         Arg("duration", "number", << "2" >>) >>,
      << Arg("action", "double", << "Back" >>) >>,
      << Arg("action", "double", << "Type" >>),
         Arg("text", "double", << "hello" >>) >>,
      << Arg("action", "double", << "Type_Name" >>),
         Arg("text", "single", << "hello" >>) >>,
      << Arg("action", "double", << "Type" >>),
         Arg("text", "double", << "Type_Name" >>) >>,
      << Arg("action", "double", << "Type" >>),
         Arg("text", "double", << "hello" >>),
         Arg("message", "double", << "greeting" >>) >>,
      << Arg("action", "double", << "Note" >>),
         Arg("message", "double", << "first", "\n", "second" >>) >> }

\* finish calls: the message within double or single quotes, or without.
FinishMessages ==
    { << "done" >>, << "Task", " ", "completed", "." >>, <<>>,
      << "first", "\n", "second" >>,
      << "It", "'", "s", " ", "done", ".", "\n", "Bye" >> }

QuotedFinishCalls ==
    { FinishCall(<< q >>, message, << q >>) :
        q \in {"\"", "'"}, message \in FinishMessages }

UnquotedFinishCalls ==
    { FinishCall(<<>>, << "done" >>, <<>>),
      FinishCall(<<>>, << "Task", " ", "completed" >>, <<>>),
      FinishCall(<< "\"" >>, << "done" >>, <<>>),
      FinishCall(<<>>, << "done" >>, << "'" >>),
      FinishCall(<<>>, <<>>, <<>>),
      FinishCall(<< " " >>, <<>>, <<>>),
      << "finish", "(", ")" >>,
      << "finish", "(", "done", ")" >>,
      << "Finish", "(", "message", "=", "done", ")" >> }

\* Completions that hold the finish marker and the do marker.
TwoMarkerCompletions ==
    { DoCall(<< Arg("action", "double", << "Back" >>) >>) \o << "\n" >>
        \o FinishCall(<< "\"" >>, << "done" >>, << "\"" >>),
      FinishCall(<< "\"" >>, << "done" >>, << "\"" >>) \o << " " >>
        \o DoCall(<< Arg("action", "double", << "Back" >>) >>),
      Thought \o DoCall(<< Arg("action", "double", << "Home" >>) >>)
        \o << " ", "then", " " >> \o FinishCall(<<>>, << "done" >>, <<>>),
      Thought \o FinishCall(<< "'" >>, << "done" >>, << "'" >>)
        \o DoCall(<< Arg("action", "double", << "Back" >>) >>)
        \o DoCall(<< Arg("action", "double", << "Home" >>) >>) }

\* Completions that hold the same marker twice.
RepeatedMarkerCompletions ==
    { Thought \o FinishCall(<< "\"" >>, << "first" >>, << "\"" >>) \o << "\n" >>
        \o FinishCall(<< "\"" >>, << "second" >>, << "\"" >>),
      FinishCall(<< "\"" >>,
                 << "call", " " >> \o FinishMarker \o << " ", "last" >>,
                 << "\"" >>),
      Thought \o DoCall(<< Arg("action", "double", << "Back" >>) >>) \o << "\n" >>
        \o DoCall(<< Arg("action", "double", << "Home" >>) >>),
      DoCall(<< Arg("action", "double", << "Note" >>),
                Arg("message", "double", << "use", " " >> \o DoMarker) >>) }

\* do calls whose action is none of the supported commands, or is missing.
UnsupportedDoCalls ==
    { DoCall(<< Arg("action", "double", << "Fly" >>) >>),
      DoCall(<< Arg("action", "double", << "tap" >>),
                Arg("element", "list", << "500", "1000" >>) >>),
      DoCall(<< Arg("action", "double", <<>>) >>),
      DoCall(<< Arg("element", "list", << "500", "1000" >>) >>),
      DoCall(<<>>) }

\* Texts that start with neither finish( nor do(.
PlainTexts ==
    { Garbage, <<>>, << " ", "\n" >>,
      << "Tap", "(", "500", ",", "1000", ")" >>,
      << "Do", "(", "action", "=", "\"", "Back", "\"", ")" >>,
      << "finish" >>,
      << "<answer>", "</answer>" >>,
      << "<think>", "hm", "</think>", "<answer>", "Back", "</answer>" >> }

AnswerTagCompletions ==
    { AnswerTagForm(<< "tap", " ", "it" >>, DoCall(command)) :
        command \in WellFormedCommands }
      \cup { AnswerTagForm(<< "over" >>, call) : call \in QuotedFinishCalls }

DecoderInputs ==
    { DoCall(command) : command \in WellFormedCommands }
      \cup QuotedFinishCalls \cup UnquotedFinishCalls
      \cup TwoMarkerCompletions \cup RepeatedMarkerCompletions
      \cup UnsupportedDoCalls \cup PlainTexts \cup AnswerTagCompletions

----------------------------------------------------------------------------
(* The two parsing steps of an iteration on their own: the model's answer  *)
(* is any of the completions above, parseResponse splits it and            *)
(* parseAction decodes the directive.                                      *)

DecoderInit ==
    /\ maxSteps = 1
    /\ hasOnStep = FALSE
    /\ pc = "answer"
    /\ stepCount = 1
    /\ finished = FALSE
    /\ result = [success |-> FALSE, finished |-> FALSE, completed |-> FALSE,
                 steps |-> 1, totalSteps |-> 1, actions |-> <<>>,
                 message |-> Undefined, finalState |-> Undefined,
                 error |-> Undefined]
    /\ context = << SystemTurn >>
    /\ screenshot = NoScreenshot
    /\ currentApp = Undefined
    /\ response \in DecoderInputs
    /\ parsed = parseResponse(NoCompletion)
    /\ action = NoCommand
    /\ actionResult = NoResult
    /\ calls = [capture |-> 0, app |-> 0, model |-> 0, dispatch |-> 0, observer |-> 0]
    /\ thrown = NothingThrown
    /\ seen = [finishStep |-> 0, finishMessage |-> Undefined, signalStep |-> 0]
    /\ failures = {}
    /\ stepLog = NoStepLog
    /\ NoServer

\* const parsed = this.parseResponse(response)
SplitResponse ==
    /\ pc = "answer"
    /\ parsed' = parseResponse(response)
    /\ pc' = "directive"
    /\ UNCHANGED << serverVars, maxSteps, hasOnStep, stepCount, finished, result, context,
                    screenshot, currentApp, response, action, actionResult,
                    calls, thrown, seen, failures, stepLog >>

\* const action = this.parseAction(parsed.action), or what it throws
DecodeDirective ==
    /\ pc = "directive"
    /\ LET r == parseAction(parsed.action) IN
         /\ action' = r.action
         /\ thrown' = IF r.ok THEN thrown
                      ELSE [stage |-> "decode", step |-> stepCount, text |-> r.error]
    /\ pc' = "command"
    /\ UNCHANGED << serverVars, maxSteps, hasOnStep, stepCount, finished, result, context,
                    screenshot, currentApp, response, parsed, actionResult,
                    calls, seen, failures, stepLog >>

DecoderNext ==
    \/ SplitResponse
    \/ DecodeDirective

DecoderSpec == DecoderInit /\ [][DecoderNext]_vars

----------------------------------------------------------------------------
(* The two coordinate normalisers on their own: a decoded Tap with any     *)
(* point, on a screen of any size.                                         *)

\* Coordinates a model may write, within 0..1000 and outside.
PointValues == {-1, 0, 1, 499, 500, 999, 1000, 1001}

\* Widths and heights of a screen.
ScreenSizes == {<< 1080, 2400 >>, << 720, 1280 >>, << 1, 3 >>}

NormalizerInit ==
    /\ maxSteps = 1
    /\ hasOnStep = FALSE
    /\ pc = "point"
    /\ stepCount = 1
    /\ finished = FALSE
    /\ result = [success |-> FALSE, finished |-> FALSE, completed |-> FALSE,
                 steps |-> 1, totalSteps |-> 1, actions |-> <<>>,
                 message |-> Undefined, finalState |-> Undefined,
                 error |-> Undefined]
    /\ context = << SystemTurn >>
    /\ \E size \in ScreenSizes :
         screenshot = [base64_data |-> "png", width |-> size[1], height |-> size[2]]
    /\ currentApp = Undefined
    /\ response = NoCompletion
    /\ parsed = parseResponse(NoCompletion)
    /\ \E x \in PointValues, y \in PointValues :
         action = Command(("_metadata" :> String("do"))
                            @@ ("action" :> String("Tap"))
                            @@ ("element" :> List(<< x, y >>)))
    /\ actionResult = NoResult
    /\ calls = [capture |-> 0, app |-> 0, model |-> 0, dispatch |-> 0, observer |-> 0]
    /\ thrown = NothingThrown
    /\ seen = [finishStep |-> 0, finishMessage |-> Undefined, signalStep |-> 0]
    /\ failures = {}
    /\ stepLog = NoStepLog
    /\ NoServer

\* const [x, y] = this.convertRelativeToAbsolute(element, width, height)
ConvertRelativeToAbsolute ==
    /\ pc = "point"
    /\ stepLog' = [stepLog EXCEPT !.pixels =
                     convertRelativeToAbsolute(action.element.v, screenshot.width,
                                               screenshot.height)]
    /\ pc' = "client pixels"
    /\ UNCHANGED << serverVars, maxSteps, hasOnStep, stepCount, finished, result, context,
                    screenshot, currentApp, response, parsed, action,
                    actionResult, calls, thrown, seen, failures >>

\* adbService.relativeToAbsolute(relativeX, relativeY, screenWidth, screenHeight)
RelativeToAbsolute ==
    /\ pc = "point"
    /\ LET pixel == relativeToAbsolute(action.element.v[1], action.element.v[2],
                                       screenshot.width, screenshot.height)
       IN  stepLog' = [stepLog EXCEPT !.pixels = << pixel.x, pixel.y >>]
    /\ pc' = "adb pixels"
    /\ UNCHANGED << serverVars, maxSteps, hasOnStep, stepCount, finished, result, context,
                    screenshot, currentApp, response, parsed, action,
                    actionResult, calls, thrown, seen, failures >>

NormalizerNext ==
    \/ ConvertRelativeToAbsolute
    \/ RelativeToAbsolute

NormalizerSpec == NormalizerInit /\ [][NormalizerNext]_vars

----------------------------------------------------------------------------
(* The HTTP and SSE servers of index.ts.  Requests of several clients      *)
(* arrive in any order; a tool call handed to a transport starts its task  *)
(* later, when the tool handler runs.                                      *)

MaxSessions == 2

MaxInFlight == 2

Clients == {"A", "B"}

\* The key a client sends in its Authorization header, when it sends one.
ApiKey == [c \in Clients |-> "key of " \o c]

\* The Authorization header a client may send, as a text: none, its key
\* after "Bearer ", or its key alone.
Authorizations(client) ==
    { << >>, << "Bearer ", ApiKey[client] >>, << ApiKey[client] >> }

\* extractApiKey: undefined without a header, else the header without its
\* "Bearer " prefix if it has one.
extractApiKey(authHeader) ==
    IF authHeader = << >> THEN Undefined
    ELSE IF startsWith(authHeader, << "Bearer " >>)
      THEN Str(SubSeq(authHeader, 2, Len(authHeader)))
    ELSE Str(authHeader)

\* The ids randomUUID gives out, in the order it gives them out.
SessionIds == << "session 1", "session 2", "session 3" >>

\* Names every JavaScript object inherits from Object.prototype.
InheritedNames == {"constructor", "__proto__", "toString"}

\* What a client may send as its session id: none, an id the server gave out
\* or may give out, or any other text.
SessionHeaders ==
    {Undefined, "constructor"} \cup {SessionIds[n] : n \in 1..MaxSessions}

\* transports[sessionId] on the plain object of startHttpServer: the
\* transport stored under the id, or the property every object inherits
\* under that name, or undefined.
Lookup(sessionId) ==
    IF sessionId \in transports THEN "transport"
    ELSE IF sessionId \in InheritedNames THEN "inherited"
    ELSE Undefined

\* transports.get(sessionId) on the Map of startSseServer.
MapGet(sessionId) == IF sessionId \in transports THEN "transport" ELSE Undefined

\* if (apiKey) process.env.AUTOGLM_API_KEY = apiKey
SetEnv(apiKey) == env' = IF Truthy(apiKey) THEN apiKey ELSE env

\* A tool call handed to a transport waits for its handler.
HandOver(client, apiKey) ==
    inflight' = inflight \cup {[client |-> client, supplied |-> apiKey]}

ServerInit ==
    /\ maxSteps = 1
    /\ hasOnStep = FALSE
    /\ pc = "loop"
    /\ stepCount = 0
    /\ finished = FALSE
    /\ result = [success |-> FALSE, finished |-> FALSE, completed |-> FALSE,
                 steps |-> 0, totalSteps |-> 0, actions |-> <<>>,
                 message |-> Undefined, finalState |-> Undefined,
                 error |-> Undefined]
    /\ context = << SystemTurn >>
    /\ screenshot = NoScreenshot
    /\ currentApp = Undefined
    /\ response = NoCompletion
    /\ parsed = parseResponse(NoCompletion)
    /\ action = NoCommand
    /\ actionResult = NoResult
    /\ calls = [capture |-> 0, app |-> 0, model |-> 0, dispatch |-> 0, observer |-> 0]
    /\ thrown = NothingThrown
    /\ seen = [finishStep |-> 0, finishMessage |-> Undefined, signalStep |-> 0]
    /\ failures = {}
    /\ stepLog = NoStepLog
    /\ mode \in {"http", "sse"}
    /\ env = ConfiguredKey
    /\ transports = {}
    /\ generated = 0
    /\ inflight = {}
    /\ started = NoTask
    /\ answer = NoAnswer

\* app.post("/mcp"): the key of the request is stored, then the request is
\* handed to the transport of its session, or to a new transport if it names
\* no session and initializes, or refused.
PostMcp ==
    /\ mode = "http"
    /\ \E client \in Clients, sessionId \in SessionHeaders, initialize \in BOOLEAN :
       \E authorization \in Authorizations(client) :
         LET apiKey == extractApiKey(authorization)
             reply(status, handled, created) ==
               [method |-> "POST", session |-> sessionId,
                initialize |-> initialize, known |-> sessionId \in transports,
                status |-> status, handled |-> handled, created |-> created]
         IN
         /\ SetEnv(apiKey)
         /\ IF Truthy(sessionId) /\ Truthy(Lookup(sessionId))
              THEN IF Lookup(sessionId) = "transport"
                     THEN /\ Cardinality(inflight) < MaxInFlight \/ initialize
                          /\ answer' = reply("by transport", "transport", FALSE)
                          /\ IF initialize THEN UNCHANGED inflight
                             ELSE HandOver(client, apiKey)
                          /\ UNCHANGED << transports, generated >>
                     ELSE \* transport.handleRequest is not a function
                          /\ answer' = reply("500", "not a transport", FALSE)
                          /\ UNCHANGED << transports, generated, inflight >>
            ELSE IF ~Truthy(sessionId) /\ initialize
              THEN /\ generated < MaxSessions
                   /\ generated' = generated + 1
                   /\ transports' = transports \cup {SessionIds[generated + 1]}
                   /\ answer' = reply("by transport", "transport", TRUE)
                   /\ UNCHANGED inflight
            ELSE /\ answer' = reply("400", "none", FALSE)
                 /\ UNCHANGED << transports, generated, inflight >>
    /\ UNCHANGED << taskVars, mode, started >>

\* app.get("/mcp"): the stream of a session; the handler has no catch.
GetMcp ==
    /\ mode = "http"
    /\ \E sessionId \in SessionHeaders :
         LET reply(status, handled) ==
               [method |-> "GET", session |-> sessionId, initialize |-> FALSE,
                known |-> sessionId \in transports,
                status |-> status, handled |-> handled, created |-> FALSE]
         IN
         IF ~Truthy(sessionId) \/ ~Truthy(Lookup(sessionId))
           THEN answer' = reply("400", "none")
         ELSE IF Lookup(sessionId) = "transport"
           THEN answer' = reply("by transport", "transport")
         ELSE \* the TypeError leaves the handler: the framework answers 500
              \* or nothing at all
              \E status \in {"500", "none"} :
                answer' = reply(status, "not a transport")
    /\ UNCHANGED << taskVars, mode, env, transports, generated, inflight, started >>

\* app.delete("/mcp"): the transport of the session ends it, and its onclose
\* takes the session out of the store.
DeleteMcp ==
    /\ mode = "http"
    /\ \E sessionId \in SessionHeaders :
         LET reply(status, handled) ==
               [method |-> "DELETE", session |-> sessionId, initialize |-> FALSE,
                known |-> sessionId \in transports,
                status |-> status, handled |-> handled, created |-> FALSE]
         IN
         IF ~Truthy(sessionId) \/ ~Truthy(Lookup(sessionId))
           THEN /\ answer' = reply("400", "none")
                /\ UNCHANGED transports
         ELSE IF Lookup(sessionId) = "transport"
           THEN /\ answer' = reply("by transport", "transport")
                /\ transports' = transports \ {sessionId}
         ELSE /\ answer' = reply("500", "not a transport")
              /\ UNCHANGED transports
    /\ UNCHANGED << taskVars, mode, env, generated, inflight, started >>

\* app.get("/sse"): the key of the request is stored and a new transport is
\* stored under its own session id.
GetSse ==
    /\ mode = "sse"
    /\ generated < MaxSessions
    /\ \E client \in Clients : \E authorization \in Authorizations(client) :
         /\ SetEnv(extractApiKey(authorization))
         /\ answer' = [method |-> "GET", session |-> Undefined,
                       initialize |-> TRUE, known |-> FALSE,
                       status |-> "by transport", handled |-> "transport",
                       created |-> TRUE]
    /\ generated' = generated + 1
    /\ transports' = transports \cup {SessionIds[generated + 1]}
    /\ UNCHANGED << taskVars, mode, inflight, started >>

\* app.post("/messages"): the key of the request is stored, then the message
\* is handed to the transport of the session or refused.
PostMessages ==
    /\ mode = "sse"
    /\ \E client \in Clients, sessionId \in SessionHeaders :
       \E authorization \in Authorizations(client) :
         LET apiKey == extractApiKey(authorization)
             reply(status, handled) ==
               [method |-> "POST", session |-> sessionId, initialize |-> FALSE,
                known |-> sessionId \in transports,
                status |-> status, handled |-> handled, created |-> FALSE]
         IN
         /\ SetEnv(apiKey)
         /\ IF ~Truthy(MapGet(sessionId))
              THEN /\ answer' = reply("400", "none")
                   /\ UNCHANGED inflight
              ELSE /\ Cardinality(inflight) < MaxInFlight
                   /\ answer' = reply("by transport", "transport")
                   /\ HandOver(client, apiKey)
    /\ UNCHANGED << taskVars, mode, transports, generated, started >>

\* transport.onclose of an SSE connection: transports.delete(sessionId).
OnClose ==
    /\ mode = "sse"
    /\ \E sessionId \in transports :
         transports' = transports \ {sessionId}
    /\ UNCHANGED << taskVars, mode, env, generated, inflight, started, answer >>

\* The handler of autoglm_task starts: new AutoGLMAPIClient({apiKey:
\* process.env.AUTOGLM_API_KEY || '', ...}); the key of the client stays with
\* the task.
StartTask ==
    /\ \E call \in inflight :
         /\ inflight' = inflight \ {call}
         /\ started' = [client |-> call.client, supplied |-> call.supplied,
                        apiKey |-> OrElse(env, "")]
    /\ UNCHANGED << taskVars, mode, env, transports, generated, answer >>

ServerNext ==
    \/ PostMcp
    \/ GetMcp
    \/ DeleteMcp
    \/ GetSse
    \/ PostMessages
    \/ OnClose
    \/ StartTask

ServerSpec == ServerInit /\ [][ServerNext]_vars

----------------------------------------------------------------------------
(* Properties of the task loop.                                            *)

Returned == pc = "returned"

Last(seq) == seq[Len(seq)]

\* C1: with maxSteps >= 1 the loop starts at most maxSteps iterations,
\* whatever the model and the device answer: the step counter, the number of
\* screenshots, model calls, dispatched commands and StepRecords, and the
\* step count of the result never exceed maxSteps.
C1_StepBound ==
    /\ stepCount <= maxSteps
    /\ calls.capture <= maxSteps
    /\ calls.model <= maxSteps
    /\ calls.dispatch <= maxSteps
    /\ Len(result.actions) <= maxSteps
    /\ result.steps <= maxSteps
    /\ result.totalSteps <= maxSteps

\* A run that used all of its two steps.
C1_Witness ==
    /\ Returned
    /\ maxSteps >= 2
    /\ calls.model = maxSteps
    /\ calls.dispatch = maxSteps
    /\ Len(result.actions) = maxSteps
    /\ result.steps = maxSteps

FatalStages == {"app", "model", "decode"}

\* C2, as stated: whatever fails at any stage of an iteration (screenshot,
\* foreground-app query, model call, decoding, dispatch), the run returns a
\* result whose success is false and whose error is non-empty.
C2_AnyFailureFailsTheTask ==
    (Returned /\ failures \cap {"screenshot", "app", "model", "decode", "dispatch"} # {})
        => (~result.success /\ Truthy(result.error))

C2_FailedResult ==
    /\ pc # "raised"
    /\ (Returned /\ thrown.stage \in FatalStages)
         => /\ ~result.success
            /\ Truthy(result.error)
            /\ Len(result.actions) = thrown.step - 1
    /\ (Returned /\ thrown.stage = "observer")
         => /\ ~result.success
            /\ result.error # Undefined
            /\ Len(result.actions) = thrown.step
    /\ (thrown.stage = "none") => result.error = Undefined

\* C2, amended: executeTask never raises to its caller.  Whatever fails at
\* the foreground-app query, the model call or the decoding of an iteration,
\* the run returns a result whose success is false, whose error is non-empty
\* and whose actions are the StepRecords appended before the failure,
\* unchanged and in order (an exception of the observer is kept as the error
\* too, after the record of its step).  A failed screenshot or a failed
\* dispatch sets no error: neither makes the run fail by itself.
C2_FatalFailureReturnsFailedResult ==
    /\ []C2_FailedResult
    /\ [][thrown'.stage # "none" => result'.actions = result.actions]_vars

\* A run that failed at the model call of its second step, keeping the
\* record of the first.
C2_Witness ==
    /\ Returned
    /\ thrown.stage = "model"
    /\ Len(result.actions) = 1
    /\ "dispatch" \in failures

FinishOutcome ==
    /\ result.finished
    /\ result.completed
    /\ result.success = actionResult.success
    /\ result.message = seen.finishMessage
    /\ result.steps = seen.finishStep
    /\ Len(result.actions) = seen.finishStep
    /\ calls.capture = seen.finishStep
    /\ calls.model = seen.finishStep
    /\ calls.dispatch = seen.finishStep

RecordMatchesDispatch(r) ==
    \E dev \in DeviceOutcomes(r.action) :
       /\ r.success = executeAction(r.action, dev).success
       /\ r.result = executeAction(r.action, dev).message

\* C4: if no step yields a finish directive, a shouldFinish signal or an
\* exception, the run returns after exactly maxSteps steps with
\* finished=false, success=false, no error, steps=maxSteps and maxSteps
\* StepRecords, each carrying the success flag of its step's dispatch.
C4_StepsExhausted ==
    (Returned /\ seen.finishStep = 0 /\ seen.signalStep = 0 /\ thrown.stage = "none")
        => /\ result.steps = maxSteps
           /\ result.totalSteps = maxSteps
           /\ ~result.finished
           /\ ~result.success
           /\ result.error = Undefined
           /\ Len(result.actions) = maxSteps
           /\ \A i \in 1..Len(result.actions) : RecordMatchesDispatch(result.actions[i])
           /\ Last(result.actions).success = actionResult.success

\* Two steps, both dispatched with success, and yet success=false.
C4_Witness ==
    /\ Returned
    /\ maxSteps = 2
    /\ seen.finishStep = 0
    /\ thrown.stage = "none"
    /\ ~result.success
    /\ Len(result.actions) = 2
    /\ \A i \in 1..2 : result.actions[i].success

\* C5: if the model call of step n throws, the loop halts in that step: the
\* model is not called again, nothing is dispatched in step n, no step n+1
\* starts, and the result has success=false, finished=false, a non-empty
\* error and the n-1 StepRecords of the earlier steps.
C5_ModelFailureHalts ==
    (thrown.stage = "model" /\ pc \in {"loop", "returned"})
        => /\ stepCount = thrown.step
           /\ calls.model = thrown.step
           /\ calls.capture = thrown.step
           /\ calls.dispatch = thrown.step - 1
           /\ ~stepLog.dispatched
           /\ ~result.success
           /\ ~result.finished
           /\ Truthy(result.error)
           /\ Len(result.actions) = thrown.step - 1
           /\ ~LoopCondition

\* The model call of the second step threw.
C5_Witness ==
    /\ Returned
    /\ thrown.stage = "model"
    /\ thrown.step = 2
    /\ maxSteps > 1
    /\ Len(result.actions) = 1
    /\ result.steps = 2

\* The iteration is over: the loop test is next, or the run has returned.
StepOver == pc \in {"loop", "returned"} /\ stepCount > 0

\* C6, as stated: a decode failure at step n < maxSteps is local to the step:
\* a StepRecord with success=false is appended for step n and the loop goes
\* on to step n+1.
C6_DecodeFailureIsLocal ==
    (StepOver /\ thrown.stage = "decode" /\ thrown.step < maxSteps)
        => /\ Len(result.actions) = thrown.step
           /\ ~Last(result.actions).success
           /\ LoopCondition

\* A directive that is neither a do( call that closes nor a finish( call.
Undecodable(d) ==
    /\ ~(startsWith(trim(d), << "do", "(" >>) /\ trim(d)[Len(trim(d))] = ")")
    /\ ~matchFinish(trim(d))

\* C6, amended: a decode failure at step n is fatal to the run: no StepRecord
\* is appended for step n and nothing is dispatched in it, the loop halts in
\* step n without another model call, and the result has success=false,
\* finished=false and a non-empty error.
C6_DecodeFailureHalts ==
    (StepOver /\ stepLog.modelCalled /\ thrown.stage # "model"
              /\ Undecodable(parsed.action))
        => /\ thrown.stage = "decode"
           /\ thrown.step = stepCount
           /\ ~stepLog.dispatched
           /\ calls.dispatch = stepCount - 1
           /\ calls.model = stepCount
           /\ Len(result.actions) = stepCount - 1
           /\ ~result.success
           /\ ~result.finished
           /\ Truthy(result.error)
           /\ ~LoopCondition

\* The directive of the first of two steps was not decodable.
C6_Witness ==
    /\ Returned
    /\ maxSteps = 2
    /\ stepCount = 1
    /\ thrown.stage = "decode"
    /\ parsed.action = Thought \o Garbage
    /\ Len(result.actions) = 0

\* The step just over dispatched a do command and the dispatch failed.
DispatchFailed ==
    /\ pc = "loop"
    /\ stepLog.dispatched
    /\ action.metadata = "do"
    /\ ~actionResult.success

FailedStepRecorded ==
    /\ Len(result.actions) = stepCount
    /\ Last(result.actions).step = stepCount
    /\ Last(result.actions).action = action
    /\ ~Last(result.actions).success
    /\ Truthy(Last(result.actions).result)
    /\ Last(result.actions).error = Last(result.actions).result
    /\ result.error = Undefined
    /\ LoopCondition

OnPlaceholder ==
    /\ screenshot.width = defaultWidth
    /\ screenshot.height = defaultHeight
    /\ screenshot.base64_data = "black"
    /\ (stepLog.pixels # <<>> /\ action.element.t = "list")
         => stepLog.pixels = convertRelativeToAbsolute(action.element.v, 1080, 2400)

\* C8, as stated: if the screenshot capture of step n fails, the step is not
\* aborted: it proceeds with the placeholder and the size 1080x2400, so the
\* model is still called in step n and the step's coordinates are normalised
\* against 1080x2400.
C8_ScreenshotFailureKeepsTheStep ==
    (StepOver /\ stepLog.shotFailed) => (stepLog.modelCalled /\ OnPlaceholder)

\* What the code does keep of C8: the step goes on to the foreground-app
\* query with the placeholder, and reaches the model whenever that query
\* does not throw.
ScreenshotFailureKeepsTheStepIfQuerySucceeds ==
    /\ (stepLog.shotFailed /\ pc # "capture") => OnPlaceholder
    /\ (StepOver /\ stepLog.shotFailed /\ thrown.stage # "app") => stepLog.modelCalled

\* C9, as stated: if the foreground-app query of step n fails, the label is
\* 'unknown', the step continues to the model call, and the failure neither
\* ends the task nor sets its error.
C9_AppQueryIsBestEffort ==
    ("app" \in failures)
        => /\ currentApp = "unknown"
           /\ result.error = Undefined
           /\ ~finished
           /\ (StepOver => stepLog.modelCalled)

\* What the code does with the label: 'unknown' stands for a package in focus
\* that the table does not know, and a failed query ends the run.
AppQueryFailureHalts ==
    /\ ("app" \in failures) => (thrown.stage = "app" /\ finished /\ ~stepLog.modelCalled)
    /\ (currentApp = "unknown") => "app" \notin failures

\* C10, as stated: an exception raised by the onStep observer is not caught
\* and turned into the result's error, but reaches the caller.
C10_ObserverExceptionReachesCaller ==
    (thrown.stage = "observer") => (pc = "raised" /\ result.error = Undefined)

\* C10, amended: an exception raised by the onStep observer is caught by the
\* catch of the iteration and does not reach the caller: it becomes the
\* result's error (the message of the Error, or the thrown value as a
\* string) with success=false and finished=false, even when the directive of
\* the step was a finish; the StepRecord of the step stays and the loop halts.
C10_ObserverExceptionIsCaught ==
    (thrown.stage = "observer")
        => /\ pc \in {"loop", "returned"}
           /\ result.error = thrown.text
           /\ ~result.success
           /\ ~result.finished
           /\ ~LoopCondition
           /\ stepCount = thrown.step
           /\ Len(result.actions) = thrown.step
           /\ calls.observer = thrown.step

\* The observer threw a string in the step of the finish directive.
C10_Witness ==
    /\ Returned
    /\ thrown.stage = "observer"
    /\ thrown.text = "stop"
    /\ seen.finishStep = thrown.step
    /\ result.error = "stop"

\* No device answers: in the first step the screenshot and the foreground-app
\* query both fail at adb.
NoDeviceAvailable ==
    /\ Returned
    /\ stepCount = 1
    /\ stepLog.shotFailed
    /\ "app" \in failures

\* C11, as stated: if no ADB device is available when autoglm_task is
\* invoked, the tool answers "Error: No ADB devices connected".
C11_NoDeviceIsReported ==
    NoDeviceAvailable
        => autoglm_task.text = << "Error: No ADB devices connected" >>

\* What the tool answers without a device: no tool error, but the formatted
\* result of a failed run of one step whose error is that of the adb command.
NoDeviceIsAFailedRun ==
    NoDeviceAvailable
        => /\ ~autoglm_task.isError
           /\ autoglm_task.text =
                << "# AutoGLM Task Execution Result", "",
                   "**Status:** Failed", "**Completed:** No",
                   "**Total Steps:** 1", "**Device ID:** default", "",
                   "**Error:** ADB command failed: adb: no devices", "" >>

\* The turns of the conversation that carry an image.
WithImage == {i \in 1..Len(context) : context[i].image}

\* C20: at every model call exactly one turn of the conversation sent
\* carries an image, and it is the newest turn, a user turn; every earlier
\* user turn has been collapsed to its text.
C20_OnlyTheNewestTurnCarriesAnImage ==
    (pc = "call")
        => /\ WithImage = {Len(context)}
           /\ context[Len(context)].role = "user"

\* A second model call: the user turn of step 1 is in the history, collapsed.
C20_Witness ==
    /\ pc = "call"
    /\ calls.model = 1
    /\ Len(context) = 4
    /\ context[2].role = "user"
    /\ ~context[2].image
    /\ context[4].image

\* The role a turn at a position of the conversation must have: the system
\* turn first, then user and assistant turns in alternation.
RoleAt(i) == IF i = 1 THEN "system" ELSE IF i % 2 = 0 THEN "user" ELSE "assistant"

ConversationShape ==
    /\ Len(context) >= 1
    /\ context[1] = SystemTurn
    /\ \A i \in 1..Len(context) : context[i].role = RoleAt(i)
    /\ (pc = "call") => Len(context) = 2 * (calls.model + 1)

\* C21: the conversation has one system turn, first and unchanged since the
\* task started, then user and assistant turns in strict alternation; no turn
\* is removed, reordered or given another role or text, so the conversation
\* sent at the k-th model call has exactly 2k turns.
C21_ConversationIsAppendOnly ==
    /\ []ConversationShape
    /\ [][/\ Len(context') >= Len(context)
          /\ \A i \in 1..Len(context) :
               /\ context'[i].role = context[i].role
               /\ context'[i].text = context[i].text]_vars

\* A run of two full steps: system, user, assistant, user, assistant.
C21_Witness ==
    /\ Returned
    /\ Len(context) = 5
    /\ calls.model = 2
    /\ context[5].role = "assistant"

\* C22: the i-th StepRecord of the task has step index i, so the indices
\* rise by one without a gap; and no step taken afterwards, the appending of
\* a record included, changes a record that is already there.
C22_StepRecordsAreNumberedAndKept ==
    /\ [](\A i \in 1..Len(result.actions) : result.actions[i].step = i)
    /\ [][/\ Len(result.actions') >= Len(result.actions)
          /\ \A i \in 1..Len(result.actions) :
               result.actions'[i] = result.actions[i]]_vars

\* Two records of different commands, the second one of a failed dispatch.
C22_Witness ==
    /\ Returned
    /\ Len(result.actions) = 2
    /\ result.actions[1].success
    /\ ~result.actions[2].success
    /\ result.actions[1].action # result.actions[2].action

\* The stages of an iteration, in the order of the source.
StageOrder ==
    << "capture", "app", "model", "decode", "dispatch", "settle", "observer" >>

\* The stages passed in the current iteration are the first ones of the
\* order, and no collaborator is ahead of the one before it or of the step
\* counter: only the step counted last can be in progress.
OneStepInProgress ==
    /\ Len(stepLog.order) <= Len(StageOrder)
    /\ stepLog.order = SubSeq(StageOrder, 1, Len(stepLog.order))
    /\ calls.capture \in {stepCount - 1, stepCount} \cap Nat
    /\ calls.app \in {calls.capture - 1, calls.capture} \cap Nat
    /\ calls.model \in {calls.app - 1, calls.app} \cap Nat
    /\ calls.dispatch \in {calls.model - 1, calls.model} \cap Nat
    /\ Len(result.actions) \in {calls.dispatch - 1, calls.dispatch} \cap Nat
    /\ calls.capture - Len(result.actions) <= 1

\* C23: the steps of a task are strictly sequential.  A screenshot is
\* captured for step n+1 only when the dispatch of step n has returned, its
\* settle delay has elapsed and its record is appended; within a step the
\* order is capture, foreground-app query, model call, decode, dispatch,
\* settle delay with the record; two steps are never in progress at once.
C23_StepsAreSequential ==
    /\ []OneStepInProgress
    /\ [][calls'.capture # calls.capture
            => /\ calls'.capture = stepCount
               /\ calls.dispatch = calls.capture
               /\ Len(result.actions) = calls.capture
               /\ stepLog.order = << >>]_vars

\* The second step, dispatched and about to settle.
C23_Witness ==
    /\ pc = "settle"
    /\ stepCount = 2
    /\ calls.dispatch = 2
    /\ Len(result.actions) = 1
    /\ stepLog.order = << "capture", "app", "model", "decode", "dispatch" >>

\* C24: provided every awaited call returns or throws in the end, every run
\* of executeTask leaves the loop and returns its result, whatever the model
\* answers; and once the run has finished or failed no iteration starts.
C24_EveryRunReturns ==
    /\ <>Returned
    /\ [][(finished \/ result.finished \/ result.error # Undefined)
            => stepCount' = stepCount]_vars

\* A run that returned because its steps were used up, neither finished nor
\* failed.
C24_Witness ==
    /\ Returned
    /\ stepCount = 2
    /\ ~finished
    /\ result.error = Undefined
    /\ Len(result.actions) = 2

\* C25: in every result returned the finished and the failed outcome exclude
\* each other: success implies finished and no error, and an error implies
\* neither finished nor success.
C25_FinishedAndFailedExclude ==
    Returned
        => /\ result.success => (result.finished /\ result.error = Undefined)
           /\ (result.error # Undefined) => (~result.finished /\ ~result.success)

\* A finish directive was decoded and dispatched, then the observer threw:
\* the result carries the error and is not finished.
C25_Witness ==
    /\ Returned
    /\ action.metadata = "finish"
    /\ actionResult.shouldFinish
    /\ thrown.stage = "observer"
    /\ result.error # Undefined
    /\ ~result.finished

\* A run that finished with success in its second step.
FinishedWithSuccess ==
    /\ Returned
    /\ stepCount = 2
    /\ result.success
    /\ result.finished
    /\ result.error = Undefined

\* C26: in every result returned the number of StepRecords is steps or
\* steps - 1, and it is steps whenever no error is set: an iteration that
\* fails is counted in steps and totalSteps though it may have appended no
\* record.
C26_RecordsAreStepsOrOneLess ==
    Returned
        => /\ result.steps = stepCount
           /\ result.totalSteps = stepCount
           /\ Len(result.actions) \in {result.steps - 1, result.steps}
           /\ (result.error = Undefined) => Len(result.actions) = result.steps

\* The second step failed at its model call: two steps counted, one record.
C26_Witness ==
    /\ Returned
    /\ result.steps = 2
    /\ result.totalSteps = 2
    /\ Len(result.actions) = 1
    /\ result.error # Undefined

\* C27: when the directive of a step cannot be decoded, nothing is
\* dispatched in that step or at any later point of the task.
C27_DecodeFailureDispatchesNothing ==
    /\ [](("decode" \in failures)
            => /\ ~stepLog.dispatched
               /\ calls.dispatch = stepCount - 1
               /\ pc \in {"loop", "returned"})
    /\ [][("decode" \in failures) => calls'.dispatch = calls.dispatch]_vars

\* The second step's directive could not be decoded after a first step that
\* sent a tap to the device; the run has returned.
C27_Witness ==
    /\ Returned
    /\ thrown.stage = "decode"
    /\ thrown.step = 2
    /\ calls.dispatch = 1
    /\ calls.model = 2
    /\ ReachesDevice(result.actions[1].action)

\* The directive of the current step is a do call, or a finish call.
WroteDo == startsWith(trim(parsed.action), << "do", "(" >>)

WroteFinish == matchFinish(trim(parsed.action))

Dispatched == pc \in {"settle", "observer"} \/ (pc \in {"loop", "returned"} /\ stepLog.dispatched)

\* C28, as stated: a run ends with finished=true only in a step whose
\* directive is a finish call; the dispatch of a do command, Take_over and
\* Interact included, never asks to finish, so the run goes on after it.
C28_OnlyAFinishDirectiveEndsTheRun ==
    /\ result.finished => WroteFinish
    /\ (Dispatched /\ WroteDo) => ~actionResult.shouldFinish

\* What the code does: a command decoded with the tag do never asks to
\* finish, and a Take_over step leaves the run unfinished; but the tag is the
\* last _metadata argument the do call carries, so a do call can be decoded
\* with another tag, and then its dispatch asks to finish.
OnlyUntaggedDoCommandsKeepRunning ==
    /\ (Dispatched /\ action.metadata = "do") => ~actionResult.shouldFinish
    /\ result.finished => action.metadata # "do"
    /\ (pc = "loop" /\ stepLog.dispatched /\ thrown.stage = "none"
          /\ action = Command(decodeDo(SubSeq(DoTakeOver, 3, Len(DoTakeOver) - 1))))
         => (~finished /\ ~result.finished)
    /\ (Dispatched /\ WroteDo /\ actionResult.shouldFinish)
         => /\ action.metadata \notin {"do", "finish"}
            /\ ~actionResult.success
            /\ "_metadata" \in DOMAIN action.args

\* A do call retagged by its own argument ended the run.
RetaggedDoEndsTheRun ==
    /\ Returned
    /\ WroteDo
    /\ result.finished
    /\ result.completed
    /\ ~result.success
    /\ result.message = "Unknown action type: done"
    /\ calls.dispatch = 1

----------------------------------------------------------------------------
(* Properties of the Response Splitter and the Action Decoder.             *)

\* The decoder has run on the directive the splitter made of the completion.
DecoderDone == pc = "command"

\* C12, as stated: a completion in the prompted form
\* <think>T</think><answer>D</answer>, D a well-formed do call or finish
\* call, is accepted: splitter and decoder yield the command of D, a do
\* command for a do call and a finish command for a finish call, and no
\* decode failure.
C12_AnswerTagFormIsAccepted ==
    (DecoderDone /\ response \in AnswerTagCompletions)
        => /\ thrown.stage = "none"
           /\ action.metadata = (IF includes(response, DoMarker) THEN "do"
                                 ELSE "finish")

\* What the code does with the prompted form: the splitter cuts at the marker
\* of the call and leaves the closing tag on the directive, which a finish
\* call tolerates and a do call does not.
AnswerTagDoCallIsRejected ==
    (DecoderDone /\ response \in AnswerTagCompletions)
        => /\ parsed.action[Len(parsed.action)] = "</answer>"
           /\ includes(response, DoMarker)
                => /\ thrown.stage = "decode"
                   /\ thrown.text = "Failed to parse action: Invalid do() format"
                   /\ action = NoCommand
           /\ ~includes(response, DoMarker)
                => (thrown.stage = "none" /\ action.metadata = "finish")

\* The value a written literal denotes, and the command a written do call
\* denotes: its keys with their values.
ValueOf(arg) ==
    CASE arg.kind \in {"double", "single"} -> String(Str(arg.value))
      [] arg.kind = "list" ->
           List([n \in 1..Len(arg.value) |-> parseFloat(arg.value[n])])
      [] arg.kind = "number" -> Num(parseFloat(arg.value[1]))

Written(args) ==
    ("_metadata" :> String("do"))
      @@ [key \in {args[n].key : n \in 1..Len(args)} |->
            ValueOf(args[CHOOSE n \in 1..Len(args) : args[n].key = key])]

\* C13, as stated: decoding a well-formed do call gives back its action
\* keyword as the command name and the value of every keyword argument,
\* none dropped and none changed.
C13_DoCallsRoundTrip ==
    \A command \in WellFormedCommands :
        (DecoderDone /\ response = DoCall(command))
            => /\ thrown.stage = "none"
               /\ action.args = Written(command)
               /\ action.action = Str(command[1].value)

\* The do calls the decoder does give back unchanged: those that are no Type
\* or Type_Name call and hold no line feed, and the Type calls whose only
\* argument is a text other than Type_Name.
DecodesExactly(command) ==
    /\ \A n \in 1..Len(command) : "\n" \notin {command[n].value[m] :
                                                 m \in 1..Len(command[n].value)}
    /\ command[1].value \in {<< "Type" >>, << "Type_Name" >>}
         => (Len(command) = 2 /\ command[2].value # << "Type_Name" >>)

DoCallsRoundTripOutsideTypeAndLineFeeds ==
    \A command \in WellFormedCommands :
        (DecoderDone /\ response = DoCall(command) /\ DecodesExactly(command))
            => /\ thrown.stage = "none"
               /\ action.args = Written(command)

\* C14, as stated: every directive that begins with finish( decodes to a
\* finish command, never to a decode failure; the message is exactly the
\* quoted text when it is properly quoted, and a non-empty text when the
\* quotes are missing.
C14_FinishCallsDecode ==
    (DecoderDone /\ response \in QuotedFinishCalls \cup UnquotedFinishCalls)
        => /\ thrown.stage = "none"
           /\ action.metadata = "finish"
           /\ \A q \in {"\"", "'"}, message \in FinishMessages :
                (response = FinishCall(<< q >>, message, << q >>)
                   /\ q \notin {message[n] : n \in 1..Len(message)})
                    => action.message = Str(message)
           /\ response \in UnquotedFinishCalls => Truthy(action.message)

\* What the code keeps of C14: a finish command always, and the exact message
\* of a quoted text that holds no quote character of either kind (one that
\* does is cut at that character when it runs over several lines).
FinishCallsDecodeWithoutInnerQuotes ==
    (DecoderDone /\ response \in QuotedFinishCalls \cup UnquotedFinishCalls)
        => /\ thrown.stage = "none"
           /\ action.metadata = "finish"
           /\ \A q \in {"\"", "'"}, message \in FinishMessages :
                (response = FinishCall(<< q >>, message, << q >>)
                   /\ Quotes \cap {message[n] : n \in 1..Len(message)} = {})
                    => action.message = Str(message)
           /\ response \in UnquotedFinishCalls => Truthy(action.message)

\* The completion holds both markers.
BothMarkers == includes(response, FinishMarker) /\ includes(response, DoMarker)

\* C15: a completion that holds the finish marker and the do marker, in
\* either order, is split at the finish marker: the directive starts with
\* the finish marker, the reasoning is the text before it, trimmed, and holds
\* the do call that stands before the finish marker.
C15_FinishMarkerTakesPrecedence ==
    (pc \in {"directive", "command"} /\ BothMarkers)
        => /\ startsWith(parsed.action, FinishMarker)
           /\ parsed.thinking =
                trim(SubSeq(response, 1, indexOf(response, FinishMarker) - 1))
           /\ indexOf(response, DoMarker) < indexOf(response, FinishMarker)
                => includes(parsed.thinking, DoMarker)

\* The do call came first, and the finish call after it was decoded.
C15_Witness ==
    /\ DecoderDone
    /\ BothMarkers
    /\ indexOf(response, DoMarker) < indexOf(response, FinishMarker)
    /\ parsed.thinking = << "do", "(", "action", "=", "\"", "Back", "\"", ")" >>
    /\ action.metadata = "finish"
    /\ action.message = "done"

\* The marker the splitter cuts at: the finish marker, or failing that the
\* do marker.
MarkerOf(content) ==
    IF includes(content, FinishMarker) THEN FinishMarker ELSE DoMarker

HasMarker == includes(response, FinishMarker) \/ includes(response, DoMarker)

\* C17, as stated: a completion that holds the finish marker (or, failing
\* that, the do marker) once or several times is split at the first
\* occurrence: the reasoning is the text before it and the directive is all
\* the rest of the completion, later occurrences of the marker included.
C17_SplitKeepsTheRemainder ==
    (pc \in {"directive", "command"} /\ HasMarker)
        => /\ parsed.thinking =
                trim(SubSeq(response, 1, indexOf(response, MarkerOf(response)) - 1))
           /\ parsed.action =
                SubSeq(response, indexOf(response, MarkerOf(response)), Len(response))

\* What the code does: the directive ends before the second occurrence of the
\* marker, if there is one, and what follows is dropped.
SplitStopsAtTheNextMarker ==
    (pc \in {"directive", "command"} /\ HasMarker)
        => LET marker == MarkerOf(response)
               rest == SubSeq(response, indexOf(response, marker) + Len(marker),
                              Len(response))
           IN  /\ parsed.thinking =
                    trim(SubSeq(response, 1, indexOf(response, marker) - 1))
               /\ parsed.action =
                    marker \o (IF includes(rest, marker)
                                 THEN SubSeq(rest, 1, indexOf(rest, marker) - 1)
                                 ELSE rest)

\* The names executeAction knows.
SupportedNames ==
    {"Launch", "Tap", "Type", "Type_Name", "Swipe", "Back", "Home",
     "Double Tap", "Long Press", "Wait", "Take_over", "Note", "Call_API",
     "Interact"}

NeitherPrefix(directive) ==
    /\ ~startsWith(trim(directive), << "do", "(" >>)
    /\ ~startsWith(trim(directive), << "finish", "(" >>)
    /\ ~startsWith(trim(directive), << "Finish", "(" >>)

\* C19: a directive whose trimmed text starts with neither finish( nor do(
\* makes the decoder fail with an error that names the trimmed text; no
\* command is returned.
C19_OtherTextFailsDecoding ==
    (DecoderDone /\ NeitherPrefix(parsed.action))
        => /\ thrown.stage = "decode"
           /\ thrown.text = "Failed to parse action: "
                              \o ("Failed to parse action: "
                                    \o Str(trim(parsed.action)))
           /\ action = NoCommand

\* The text "tap the button" was refused.
C19_Witness ==
    /\ DecoderDone
    /\ response = Garbage
    /\ NeitherPrefix(parsed.action)
    /\ thrown.text = "Failed to parse action: Failed to parse action: tap the button"

----------------------------------------------------------------------------
(* Properties of the coordinate normalisers.                               *)

\* round(value / 1000 * dimension), a half going up.
Rounded(value, dimension) ==
    CHOOSE pixel \in -(3 * dimension)..(3 * dimension) :
        /\ 2 * 1000 * pixel <= 2 * value * dimension + 1000
        /\ 2 * value * dimension + 1000 < 2 * 1000 * (pixel + 1)

\* C16, as stated: for every point, within 0..1000 or not, and every screen,
\* both normalisers give per axis round(value / 1000 * dimension), unclamped;
\* so (0,0) goes to (0,0) and (1000,1000) to (width, height).
C16_BothNormalizersRound ==
    (pc \in {"client pixels", "adb pixels"})
        => stepLog.pixels =
             << Rounded(action.element.v[1], screenshot.width),
                Rounded(action.element.v[2], screenshot.height) >>

\* What the code does: convertRelativeToAbsolute rounds, relativeToAbsolute
\* cuts the fraction off (so it is up to one pixel lower), and both are exact
\* where the product is a whole number, the corners among them.
OnlyTheClientNormalizerRounds ==
    /\ (pc = "client pixels")
         => stepLog.pixels =
              << Rounded(action.element.v[1], screenshot.width),
                 Rounded(action.element.v[2], screenshot.height) >>
    /\ (pc = "adb pixels")
         => /\ stepLog.pixels[1] \in
                 { Rounded(action.element.v[1], screenshot.width) - 1,
                   Rounded(action.element.v[1], screenshot.width) }
            /\ 1000 * stepLog.pixels[1] <= action.element.v[1] * screenshot.width
            /\ 1000 * stepLog.pixels[2] <= action.element.v[2] * screenshot.height
    /\ (pc # "point" /\ action.element.v = << 0, 0 >>)
         => stepLog.pixels = << 0, 0 >>
    /\ (pc # "point" /\ action.element.v = << 1000, 1000 >>)
         => stepLog.pixels = << screenshot.width, screenshot.height >>

----------------------------------------------------------------------------
(* Properties of the HTTP and SSE servers.                                 *)

\* C29, as stated: with several clients, the key a task uses is the key of
\* the Authorization header of the request that started it, or the key the
\* server was configured with when that request had none; never a key that
\* another session's request supplied, in whatever order requests arrive.
C29_TaskUsesTheKeyOfItsRequest ==
    (started # NoTask)
        => /\ started.apiKey =
                IF Truthy(started.supplied) THEN started.supplied ELSE ConfiguredKey
           /\ started.apiKey \notin {ApiKey[c] : c \in Clients \ {started.client}}

\* What the code does: every request with a key writes it to the one
\* environment of the process, and a task takes the key that is there when
\* its handler starts: the key of whichever request wrote last.
TaskUsesTheKeyStoredLast ==
    /\ [](env \in {ConfiguredKey} \cup {ApiKey[c] : c \in Clients})
    /\ [][started' # started => started'.apiKey = env]_vars
    /\ [][env' # env => \E c \in Clients : env' = ApiKey[c]]_vars

\* A task of client B, whose request carried no key, runs with the key of A.
TaskRunsWithAnotherClientsKey ==
    /\ started.client = "B"
    /\ started.supplied = Undefined
    /\ started.apiKey = ApiKey["A"]

\* The request is one the servers accept by their own rule: it names a
\* stored session, or it is a POST that names none and initializes.
Admissible ==
    \/ answer.known
    \/ answer.method = "POST" /\ answer.session = Undefined /\ answer.initialize

\* C30, as stated: in HTTP mode a POST /mcp is handed to a transport only if
\* it names a session id that is registered, or names none and initializes
\* (which creates a session); every other POST, and every GET or DELETE
\* whose session id is missing or not registered, the id of a closed session
\* included, is answered with status 400 and creates no session.
C30_OnlyRegisteredSessionsAreServed ==
    (mode = "http" /\ answer # NoAnswer)
        => /\ (answer.handled # "none") => Admissible
           /\ ~Admissible => /\ answer.status = "400"
                             /\ answer.handled = "none"
                             /\ ~answer.created

\* What the code does: the rule holds for every session id that is no name
\* of Object.prototype; under such a name the lookup in the plain object
\* finds the inherited property, which is taken for a transport: the call of
\* its handleRequest throws, and the request is answered 500 (or, for GET,
\* possibly not at all); no session is created.
OnlyInheritedNamesPassUnregistered ==
    (mode = "http" /\ answer # NoAnswer)
        => /\ (answer.session \notin InheritedNames)
                => /\ (answer.handled # "none") => Admissible
                   /\ ~Admissible => /\ answer.status = "400"
                                     /\ answer.handled = "none"
                                     /\ ~answer.created
           /\ (answer.session \in InheritedNames)
                => /\ answer.handled = "not a transport"
                   /\ answer.status \in {"500", "none"}
                   /\ ~answer.created
           /\ answer.created
                => (answer.method = "POST" /\ answer.session = Undefined
                      /\ answer.initialize)

\* The id of a session that was ended is refused with 400.
ClosedSessionIsRefused ==
    /\ mode = "http"
    /\ generated >= 1
    /\ answer.session = SessionIds[1]
    /\ ~answer.known
    /\ answer.status = "400"

====
